---- MODULE Spec2Model ----
(***************************************************************************)
(* ALM extraction tool: the extraction engine of the backend, as the       *)
(* repository documents it (the Python of docs/*.md and the endpoint       *)
(* specification), modelled as state machines:                             *)
(*   SpecFetch   - the paginated fetch loop of alm.py (fetch_domains)      *)
(*   SpecExpand  - the one-level expansion endpoints over MongoDB          *)
(*   SpecExtract - the recursive folder extraction and its job record      *)
(***************************************************************************)
EXTENDS Integers, Sequences, FiniteSets, TLC

VARIABLES
    \* ---- paginated fetch (docs/PYENV_SETUP.md, "Logic") ----
    upstreamList,   \* the records the ALM list endpoint holds, in id order
    fpc,            \* position of fetch_domains: "idle", "loop", "done"
    start_index,    \* start_index of the loop
    all_domains,    \* the accumulator all_domains
    requestLog,     \* every api_call made: start-index, page size, answer size
    lastTotal,      \* TotalResults of the response read last (-1: none yet)
    \* ---- storage and the expansion endpoints ----
    alm,            \* the entities the ALM server holds (raw records)
    db,             \* MongoDB: collection name -> the documents, in insertion order
    clock,          \* datetime.utcnow(), one tick per request handled
    writeCount,     \* how many replace_one calls were made so far
    request,        \* the request handled last: endpoint, username, id
    response,       \* what that request returned
    \* ---- recursive extraction and its job ----
    job,            \* the document of testplan_extraction_results
    jobNotes,       \* the error / notes recorded on the job
    stack,          \* the calls of extract_folder_tree in progress, innermost last
    expanded,       \* <<folder_id, depth>> of every call that went past the depth check
    refused,        \* how many calls the depth check turned back
    polled,         \* the answer of get_extraction_status, when it was the step taken last
    \* ---- one call to ALM with its retries ----
    cpc,            \* position of the call: "idle", "try", "done", "failed"
    callLog,        \* how each request of the call in progress ended
    reauths,        \* re-authentications made for the call in progress
    callHistory,    \* the logs of the calls that ended, with how they ended
    \* ---- walkers at work at the same time ----
    procs,          \* walker -> its writes, where it stands, the job it counts for
    counters,       \* job -> the records counter of its document
    applied,        \* job -> the sum of the increments made for it so far
    \* ---- the login page and the application around it ----
    loginState,    \* the state of the Login component: step, lists, selections, error, loading
    loginPc,       \* the request the login page waits for: idle, auth, register, domains, projects
    loginsInFlight, \* the /api/login requests sent and not yet answered, with their arguments
    apiCalls,      \* every call of the login protocol made so far, in order
    localStorage,  \* the browser's localStorage: key -> value, the empty string when absent
    isAuthenticated, \* App state
    userRole,      \* App state
    sessionRole,   \* the role of the last successful login with no logout since, or the empty string
    \* ---- the tree view (components/TestTree.tsx) ----
    treeData,      \* the nodes shown, each with expanded, loaded, has_children and its children
    treeLoading,   \* loading: while true the tree is replaced by a Loading line
    childRequests, \* the requests for the children of a node sent and not yet answered
    requested,     \* node id -> how many times its children were requested
    contextMenu,   \* the id of the node the context menu is open on, or the empty string
    extracting,    \* the extracting flag, which shows the progress banner
    snackbar,      \* the notification shown: open, severity, message
    extractsInFlight, \* the extract and export requests sent and not yet answered
    \* ---- the log viewer (components/LogsViewer.tsx) ----
    viewerMounted, \* whether the log viewer is on the page
    activeService, \* state: the service whose logs are shown
    logLevel,      \* state: the level the stream is filtered by
    isStreaming,   \* state: whether the viewer shows itself as streaming
    eventSourceRef, \* eventSourceRef.current: the stream the viewer holds, NoStream for null
    openStreams,   \* the EventSources opened and not closed
    streamTimers,  \* the restarts set by setTimeout and not yet run, with the service and level they captured
    streamsOpened  \* how many EventSources were opened so far

fetchVars == <<upstreamList, fpc, start_index, all_domains, requestLog, lastTotal>>

storeVars == <<alm, db, clock, writeCount, request, response>>

extractVars == <<job, jobNotes, stack, expanded, refused, polled>>

callVars == <<cpc, callLog, reauths, callHistory>>

\* What the fetch, the expansion endpoints and the walk leave alone.
concVars == <<procs, counters, applied>>

loginVars == <<loginState, loginPc, loginsInFlight, apiCalls, localStorage, isAuthenticated, userRole, sessionRole>>

backendVars == <<fetchVars, storeVars, extractVars, callVars, concVars>>

treeVars == <<treeData, treeLoading, childRequests, requested, contextMenu, extracting, snackbar, extractsInFlight>>

viewerVars == <<viewerMounted, activeService, logLevel, isStreaming, eventSourceRef, openStreams, streamTimers, streamsOpened>>

uiVars == <<loginVars, treeVars, viewerVars>>

laterVars == <<callVars, concVars, uiVars>>

vars == <<upstreamList, fpc, start_index, all_domains, requestLog, lastTotal,
          alm, db, clock, writeCount, request, response,
          job, jobNotes, stack, expanded, refused, polled,
          cpc, callLog, reauths, callHistory,
          procs, counters, applied,
          loginState, loginPc, loginsInFlight, apiCalls, localStorage, isAuthenticated, userRole, sessionRole,
          treeData, treeLoading, childRequests, requested, contextMenu, extracting, snackbar, extractsInFlight,
          viewerMounted, activeService, logLevel, isStreaming, eventSourceRef, openStreams, streamTimers, streamsOpened>>

----------------------------------------------------------------------------
(* Helpers *)

Min(a, b) == IF a < b THEN a ELSE b

Range(s) == {s[i] : i \in 1..Len(s)}

----------------------------------------------------------------------------
(* Paginated fetch: alm.py fetch_domains and its siblings *)

\* page_size = 100
PageSize == 100

\* Largest contiguous range of list sizes tried (the sizes 250 and 1000 are added).
MaxTotal == 101

FetchTotals == (0..MaxTotal) \cup {99, 100, 101, 250, 1000}

\* start_index = 1
FirstIndex == 1

\* The ALM endpoint: at most PageSize entities from the 1-based start-index on.
AlmPage(list, start) == SubSeq(list, start, Min(start + PageSize - 1, Len(list)))

\* What ALM may report as TotalResults: "not always accurate" under filters.
TotalResultsChoices(list) == {Len(list), 0, Len(list) + PageSize}

\* A bug: the next batch starts on the last entity of the batch just read.
NextIndexOverlap(start) == start + PageSize - 1

\* start_index += page_size
NextIndex(start) == start + PageSize

\* A bug: completion decided from the TotalResults the response reports.
IsLastPageByTotal(domains, total_results, fetched) == fetched >= total_results

\* A bug: a full page is taken for the last one.
IsLastPageOffByOne(domains, total_results, fetched) == Len(domains) <= PageSize

\* if len(domains) < page_size: break
IsLastPage(domains, total_results, fetched) == Len(domains) < PageSize

\* all_domains = []; start_index = 1; page_size = 100
FetchStart ==
    /\ fpc = "idle"
    /\ fpc' = "loop"
    /\ all_domains' = <<>>
    /\ start_index' = FirstIndex
    /\ UNCHANGED <<upstreamList, requestLog, lastTotal>>
    /\ UNCHANGED storeVars
    /\ UNCHANGED extractVars
    /\ UNCHANGED laterVars

\* One turn of "while True": api_call, extend, break or advance.
FetchBatch ==
    /\ fpc = "loop"
    /\ \E total_results \in TotalResultsChoices(upstreamList) :
         LET domains == AlmPage(upstreamList, start_index)
             fetched == Len(all_domains) + Len(domains)
         IN  /\ all_domains' = all_domains \o domains
             /\ requestLog' = Append(requestLog,
                    [start |-> start_index, page_size |-> PageSize,
                     count |-> Len(domains)])
             /\ lastTotal' = total_results
             /\ IF IsLastPage(domains, total_results, fetched)
                  THEN /\ fpc' = "done"
                       /\ start_index' = start_index
                  ELSE /\ fpc' = "loop"
                       /\ start_index' = NextIndex(start_index)
    /\ UNCHANGED upstreamList
    /\ UNCHANGED storeVars
    /\ UNCHANGED extractVars
    /\ UNCHANGED laterVars

\* The same loop as a function of the list: what a caller of fetch_* receives.
RECURSIVE FetchFrom(_, _, _)
FetchFrom(list, start, acc) ==
    LET domains == AlmPage(list, start)
    IN  IF IsLastPage(domains, Len(list), Len(acc) + Len(domains))
          THEN acc \o domains
          ELSE FetchFrom(list, NextIndex(start), acc \o domains)

FetchAll(list) == FetchFrom(list, FirstIndex, <<>>)

----------------------------------------------------------------------------
(* The ALM server's data and its list endpoints *)

Users == {"u1", "u2"}

RawEntity(kind, id, name, parent_id, parent_type) ==
    [kind |-> kind, id |-> id, name |-> name,
     parent_id |-> parent_id, parent_type |-> parent_type]

\* TestPlan: folder F1 with subfolders F2, F3 and test T1 (two design steps, one
\* attachment). TestLab: release R1, cycle C1, test set TS1 (two runs, one
\* attachment). Defect D1 (one attachment). Ids of different kinds coincide
\* (folder 1 and defect 1, test 100 and test set 100), as ALM numbers each
\* entity table on its own.
BaseAlm ==
    { RawEntity("test-folders", 1, "F1", 0, ""),
      RawEntity("test-folders", 2, "F2", 1, ""),
      RawEntity("test-folders", 3, "F3", 1, ""),
      RawEntity("tests", 100, "T1", 1, ""),
      RawEntity("design-steps", 1001, "Step 1", 100, ""),
      RawEntity("design-steps", 1002, "Step 2", 100, ""),
      RawEntity("attachments", 5002, "test.png", 100, "test"),
      RawEntity("releases", 10, "R1", 0, ""),
      RawEntity("release-cycles", 20, "C1", 10, ""),
      RawEntity("test-sets", 100, "TS1", 20, ""),
      RawEntity("test-runs", 301, "Run 1", 100, ""),
      RawEntity("test-runs", 302, "Run 2", 100, ""),
      RawEntity("attachments", 5004, "testset.log", 100, "test-set"),
      RawEntity("defects", 1, "D1", 0, ""),
      RawEntity("attachments", 5005, "defect.txt", 1, "defect"),
      RawEntity("attachments", 5006, "defect.log", 1, "defect") }

\* Attachments a project may or may not hold.
OptionalAlm ==
    { RawEntity("attachments", 5001, "folder.pdf", 1, "test-folder"),
      RawEntity("attachments", 5003, "step.png", 1001, "design-step") }

MinId(S) == CHOOSE e \in S : \A o \in S : e.id <= o.id

\* order-by={id[asc]}
RECURSIVE SortById(_)
SortById(S) ==
    IF S = {} THEN <<>>
    ELSE LET e == MinId(S) IN <<e>> \o SortById(S \ {e})

\* GET /rest/domains/{domain}/projects/{project}/<kind>?query={parent-id[..]}
\* (for attachments: query={parent-id[..];parent-type[..]}), all pages.
AlmQuery(kind, parent_id, parent_type) ==
    FetchAll(SortById({e \in alm : /\ e.kind = kind
                                   /\ e.parent_id = parent_id
                                   /\ e.parent_type = parent_type}))

get_test_folders(parent_id) == AlmQuery("test-folders", parent_id, "")
get_tests(parent_id) == AlmQuery("tests", parent_id, "")
get_design_steps(test_id) == AlmQuery("design-steps", test_id, "")
get_attachments(parent_id, parent_type) == AlmQuery("attachments", parent_id, parent_type)
get_release_cycles(release_id) == AlmQuery("release-cycles", release_id, "")
get_test_sets(cycle_id) == AlmQuery("test-sets", cycle_id, "")
get_test_runs(testset_id) == AlmQuery("test-runs", testset_id, "")

----------------------------------------------------------------------------
(* Entity Normalizer and Collection Router: alm_config.py *)

\* ALMConfig.parse_alm_response_to_entity: user, id, name, parent_id and
\* entity_type at the top level, the other fields of the response carried over.
parse_alm_response_to_entity(endpoint_name, response_data, username, parent_id) ==
    [user |-> username,
     id |-> response_data.id,
     name |-> response_data.name,
     parent_id |-> parent_id,
     entity_type |-> endpoint_name,
     parent_type |-> response_data.parent_type]

AttachmentCollections ==
    {"testplan_folder_attachments", "testplan_test_attachments",
     "testplan_test_design_step_attachments", "testlab_testset_attachments",
     "defect_attachments"}

EntityCollections ==
    {"testplan_folders", "testplan_tests", "testplan_test_design_steps",
     "testlab_releases", "testlab_release_cycles", "testlab_testsets",
     "testlab_testruns", "defects"} \cup AttachmentCollections

Collections == EntityCollections \cup {"attachment_cache"}

\* A bug: design-step attachments routed like test attachments.
get_collection_name_flat(entity_type, parent_type) ==
    CASE entity_type = "test-folders" -> "testplan_folders"
      [] entity_type = "tests" -> "testplan_tests"
      [] entity_type = "design-steps" -> "testplan_test_design_steps"
      [] entity_type = "releases" -> "testlab_releases"
      [] entity_type = "release-cycles" -> "testlab_release_cycles"
      [] entity_type = "test-sets" -> "testlab_testsets"
      [] entity_type = "test-runs" -> "testlab_testruns"
      [] entity_type = "defects" -> "defects"
      [] entity_type = "attachment" /\ parent_type = "test-folder" -> "testplan_folder_attachments"
      [] entity_type = "attachment" /\ parent_type \in {"test", "design-step"} -> "testplan_test_attachments"
      [] entity_type = "attachment" /\ parent_type = "test-set" -> "testlab_testset_attachments"
      [] entity_type = "attachment" /\ parent_type = "defect" -> "defect_attachments"
      [] OTHER -> "unknown"

\* ALMConfig.get_collection_name_from_entity_type(entity_type, parent_type)
get_collection_name_from_entity_type(entity_type, parent_type) ==
    CASE entity_type = "test-folders" -> "testplan_folders"
      [] entity_type = "tests" -> "testplan_tests"
      [] entity_type = "design-steps" -> "testplan_test_design_steps"
      [] entity_type = "releases" -> "testlab_releases"
      [] entity_type = "release-cycles" -> "testlab_release_cycles"
      [] entity_type = "test-sets" -> "testlab_testsets"
      [] entity_type = "test-runs" -> "testlab_testruns"
      [] entity_type = "defects" -> "defects"
      [] entity_type = "attachment" /\ parent_type = "test-folder" -> "testplan_folder_attachments"
      [] entity_type = "attachment" /\ parent_type = "test" -> "testplan_test_attachments"
      [] entity_type = "attachment" /\ parent_type = "design-step" -> "testplan_test_design_step_attachments"
      [] entity_type = "attachment" /\ parent_type = "test-set" -> "testlab_testset_attachments"
      [] entity_type = "attachment" /\ parent_type = "defect" -> "defect_attachments"
      [] OTHER -> "unknown"

----------------------------------------------------------------------------
(* MongoDB writes *)

\* The filter of the entity upserts: {"user": ..., "id": ...}
EntityKey == {"user", "id"}

\* The filter of the attachment_cache upsert.
CacheKey == {"user", "attachment_id", "parent_id", "parent_type"}

KeyMatch(d, doc, key) == \A f \in key : d[f] = doc[f]

\* A bug: insert_one where replace_one(..., upsert=True) is meant.
insert_one(docs, key, doc) == Append(docs, doc)

\* collection.replace_one(filter, doc, upsert=True): the first document the
\* filter matches is replaced; with no match the document is inserted.
replace_one(docs, key, doc) ==
    IF \E i \in 1..Len(docs) : KeyMatch(docs[i], doc, key)
      THEN LET i == CHOOSE k \in 1..Len(docs) :
                        /\ KeyMatch(docs[k], doc, key)
                        /\ \A j \in 1..(k - 1) : ~KeyMatch(docs[j], doc, key)
           IN  [docs EXCEPT ![i] = doc]
      ELSE Append(docs, doc)

\* The document of attachment_cache: the downloaded file and when it was read.
CacheDoc(att_entity, username, parent_id, now) ==
    [user |-> username,
     attachment_id |-> att_entity.id,
     parent_id |-> parent_id,
     parent_type |-> att_entity.parent_type,
     filename |-> att_entity.name,
     downloaded_at |-> now]

----------------------------------------------------------------------------
(* A handler as the ordered list of what it does: calls to ALM (each may     *)
(* raise) and writes to MongoDB. An exception ends the handler; what was    *)
(* written before it stays (no transaction).                                *)

Call == [op |-> "call", what |-> "list"]

\* file_response = await client.get(download_url): a call to ALM like any other.
Download == [op |-> "call", what |-> "download"]

Put(coll, key, doc) == [op |-> "put", coll |-> coll, key |-> key, doc |-> doc]

\* for raw_entity in entities: parse, replace_one(..., upsert=True)
StoreEntities(endpoint_name, raws, username, parent_id) ==
    [i \in 1..Len(raws) |->
        Put(get_collection_name_from_entity_type(endpoint_name, ""), EntityKey,
            parse_alm_response_to_entity(endpoint_name, raws[i], username, parent_id))]

\* for att in attachments: store the metadata in the collection of its parent
\* type, download the file, store it in attachment_cache.
RECURSIVE StoreAttachments(_, _, _, _)
StoreAttachments(raws, username, parent_id, now) ==
    IF raws = <<>> THEN <<>>
    ELSE LET att_entity == parse_alm_response_to_entity(
                               "attachments", Head(raws), username, parent_id)
             collection_name == get_collection_name_from_entity_type(
                               "attachment", att_entity.parent_type)
         IN  << Put(collection_name, EntityKey, att_entity),
                Download,
                Put("attachment_cache", CacheKey,
                    CacheDoc(att_entity, username, parent_id, now)) >>
             \o StoreAttachments(Tail(raws), username, parent_id, now)

\* How many writes a script makes before its fail-th call to ALM raises.
RECURSIVE PutsDone(_, _)
PutsDone(script, fail) ==
    IF script = <<>> THEN 0
    ELSE IF Head(script).op = "call"
           THEN IF fail = 1 THEN 0
                ELSE PutsDone(Tail(script), IF fail = 0 THEN 0 ELSE fail - 1)
           ELSE 1 + PutsDone(Tail(script), fail)

\* Which call of a script its fail-th call to ALM is: a list or a download.
RECURSIVE RaisedBy(_, _)
RaisedBy(script, fail) ==
    IF script = <<>> THEN "none"
    ELSE IF Head(script).op = "call"
           THEN IF fail = 1 THEN Head(script).what
                ELSE RaisedBy(Tail(script), fail - 1)
           ELSE RaisedBy(Tail(script), fail)

NumCalls(script) == Cardinality({i \in 1..Len(script) : script[i].op = "call"})

\* The writes of a script up to the fail-th call to ALM, which raises
\* (fail = 0: no call raises).
RECURSIVE RunScript(_, _, _)
RunScript(d, script, fail) ==
    IF script = <<>> THEN d
    ELSE LET item == Head(script)
         IN  IF item.op = "call"
               THEN IF fail = 1 THEN d
                    ELSE RunScript(d, Tail(script), IF fail = 0 THEN 0 ELSE fail - 1)
               ELSE RunScript(
                        [d EXCEPT ![item.coll] = replace_one(@, item.key, item.doc)],
                        Tail(script), fail)

----------------------------------------------------------------------------
(* The one-level expansion endpoints: main.py *)

\* Requests handled in one behaviour.
MaxOps == 2

FolderIds == {1, 2}
TestIds == {100}
StepIds == {1001, 1002}
ReleaseIds == {10}
CycleIds == {20}
TestsetIds == {100}
DefectIds == {1}

NoRequest == [endpoint |-> "none", username |-> "", id |-> 0]

NoResponse == [success |-> FALSE, none |-> TRUE]

\* except Exception as e: return {"success": False, "error": str(e)}
Failed(error) == [success |-> FALSE, error |-> error]

\* A handler run as one step: its writes up to the failing call, its answer.
Handle(endpoint, username, id, script, fail, answer) ==
    /\ clock < MaxOps
    /\ clock' = clock + 1
    /\ db' = RunScript(db, script, fail)
    /\ writeCount' = writeCount + PutsDone(script, fail)
    /\ request' = [endpoint |-> endpoint, username |-> username, id |-> id]
    /\ response' = IF fail = 0 THEN answer ELSE Failed(RaisedBy(script, fail))
    /\ UNCHANGED alm
    /\ UNCHANGED fetchVars
    /\ UNCHANGED extractVars
    /\ UNCHANGED laterVars

\* A bug: the folder's tests are expanded along with the folder.
testplan_folder_script_deep(username, folder_id, now) ==
    LET subfolders == get_test_folders(folder_id)
        tests == get_tests(folder_id)
        attachments == get_attachments(folder_id, "test-folder")
        steps == IF tests = <<>> THEN <<>> ELSE get_design_steps(tests[1].id)
    IN  <<Call>> \o StoreEntities("test-folders", subfolders, username, folder_id)
        \o <<Call>> \o StoreEntities("tests", tests, username, folder_id)
        \o <<Call>> \o StoreAttachments(attachments, username, folder_id, now)
        \o StoreEntities("design-steps", steps, username,
                         IF tests = <<>> THEN 0 ELSE tests[1].id)

\* expand_testplan_folder: subfolders, tests, folder attachments
testplan_folder_script(username, folder_id, now) ==
    LET subfolders == get_test_folders(folder_id)
        tests == get_tests(folder_id)
        attachments == get_attachments(folder_id, "test-folder")
    IN  <<Call>> \o StoreEntities("test-folders", subfolders, username, folder_id)
        \o <<Call>> \o StoreEntities("tests", tests, username, folder_id)
        \o <<Call>> \o StoreAttachments(attachments, username, folder_id, now)

expand_testplan_folder ==
    \E username \in Users, folder_id \in FolderIds :
        LET script == testplan_folder_script(username, folder_id, clock + 1)
        IN  \E fail \in 0..NumCalls(script) :
                Handle("expand_testplan_folder", username, folder_id, script, fail,
                       [success |-> TRUE,
                        folder_id |-> folder_id,
                        subfolders |-> Len(get_test_folders(folder_id)),
                        tests |-> Len(get_tests(folder_id)),
                        attachments |-> Len(get_attachments(folder_id, "test-folder"))])

\* "3. Get design step attachments": for step in steps: fetch, store, download
RECURSIVE StepAttachments(_, _, _)
StepAttachments(steps, username, now) ==
    IF steps = <<>> THEN <<>>
    ELSE <<Call>>
         \o StoreAttachments(get_attachments(Head(steps).id, "design-step"),
                             username, Head(steps).id, now)
         \o StepAttachments(Tail(steps), username, now)

RECURSIVE step_att_count(_)
step_att_count(steps) ==
    IF steps = <<>> THEN 0
    ELSE Len(get_attachments(Head(steps).id, "design-step"))
         + step_att_count(Tail(steps))

\* expand_testplan_test: design steps, test attachments, step attachments
testplan_test_script(username, test_id, now) ==
    LET steps == get_design_steps(test_id)
        test_atts == get_attachments(test_id, "test")
    IN  <<Call>> \o StoreEntities("design-steps", steps, username, test_id)
        \o <<Call>> \o StoreAttachments(test_atts, username, test_id, now)
        \o StepAttachments(steps, username, now)

expand_testplan_test ==
    \E username \in Users, test_id \in TestIds :
        LET script == testplan_test_script(username, test_id, clock + 1)
        IN  \E fail \in 0..NumCalls(script) :
                Handle("expand_testplan_test", username, test_id, script, fail,
                       [success |-> TRUE,
                        test_id |-> test_id,
                        design_steps |-> Len(get_design_steps(test_id)),
                        test_attachments |-> Len(get_attachments(test_id, "test")),
                        step_attachments |-> step_att_count(get_design_steps(test_id))])

\* One list of attachments of a parent: fetch, then store and download each.
attachments_script(username, parent_id, parent_type, now) ==
    <<Call>> \o StoreAttachments(get_attachments(parent_id, parent_type),
                                 username, parent_id, now)

expand_design_step ==
    \E username \in Users, step_id \in StepIds :
        LET script == attachments_script(username, step_id, "design-step", clock + 1)
        IN  \E fail \in 0..NumCalls(script) :
                Handle("expand_design_step", username, step_id, script, fail,
                       [success |-> TRUE,
                        step_id |-> step_id,
                        attachments |-> Len(get_attachments(step_id, "design-step"))])

expand_testlab_release ==
    \E username \in Users, release_id \in ReleaseIds :
        LET cycles == get_release_cycles(release_id)
            script == <<Call>> \o StoreEntities("release-cycles", cycles,
                                                username, release_id)
        IN  \E fail \in 0..NumCalls(script) :
                Handle("expand_testlab_release", username, release_id, script, fail,
                       [success |-> TRUE,
                        release_id |-> release_id,
                        cycles |-> Len(cycles)])

expand_testlab_cycle ==
    \E username \in Users, cycle_id \in CycleIds :
        LET test_sets == get_test_sets(cycle_id)
            script == <<Call>> \o StoreEntities("test-sets", test_sets,
                                                username, cycle_id)
        IN  \E fail \in 0..NumCalls(script) :
                Handle("expand_testlab_cycle", username, cycle_id, script, fail,
                       [success |-> TRUE,
                        cycle_id |-> cycle_id,
                        test_sets |-> Len(test_sets)])

expand_testlab_testset ==
    \E username \in Users, testset_id \in TestsetIds :
        LET test_runs == get_test_runs(testset_id)
            script == <<Call>> \o StoreEntities("test-runs", test_runs,
                                                username, testset_id)
                      \o attachments_script(username, testset_id, "test-set", clock + 1)
        IN  \E fail \in 0..NumCalls(script) :
                Handle("expand_testlab_testset", username, testset_id, script, fail,
                       [success |-> TRUE,
                        testset_id |-> testset_id,
                        test_runs |-> Len(test_runs),
                        attachments |-> Len(get_attachments(testset_id, "test-set"))])

expand_defect ==
    \E username \in Users, defect_id \in DefectIds :
        LET script == attachments_script(username, defect_id, "defect", clock + 1)
        IN  \E fail \in 0..NumCalls(script) :
                Handle("expand_defect", username, defect_id, script, fail,
                       [success |-> TRUE,
                        defect_id |-> defect_id,
                        attachments |-> Len(get_attachments(defect_id, "defect"))])

NoJob == [status |-> "none"]

NoNotes == [error |-> "", notes |-> ""]

\* The extraction part at rest, for the behaviours that do not run a job.
ExtractIdle ==
    /\ job = NoJob
    /\ jobNotes = NoNotes
    /\ stack = <<>>
    /\ expanded = {}
    /\ refused = 0
    /\ polled = NoJob

\* No call to ALM under way, for the behaviours that do not model the retries.
CallIdle ==
    /\ cpc = "idle"
    /\ callLog = <<>>
    /\ reauths = 0
    /\ callHistory = <<>>

\* const [state, setState] = useState<LoginPageState>({ step: 1, ... })
\* (password and projectGroup play no part in the order of the calls)
InitialLoginState ==
    [step |-> 1, username |-> "", domains |-> <<>>, projects |-> <<>>,
     selectedDomain |-> "", selectedProject |-> "", error |-> "",
     loading |-> FALSE, crashed |-> FALSE]

StorageKeys == {"user", "role", "domain", "project"}

EmptyStorage == [k \in StorageKeys |-> ""]

\* The application just opened in a browser that never saw a login.
LoginIdle ==
    /\ loginState = InitialLoginState
    /\ loginPc = "idle"
    /\ loginsInFlight = <<>>
    /\ apiCalls = <<>>
    /\ localStorage = EmptyStorage
    /\ isAuthenticated = FALSE
    /\ userRole = ""
    /\ sessionRole = ""

NoSnackbar == [open |-> FALSE, severity |-> "success", message |-> ""]

\* The tree view not on the screen.
TreeIdle ==
    /\ treeData = <<>>
    /\ treeLoading = FALSE
    /\ childRequests = <<>>
    /\ requested = <<>>
    /\ contextMenu = ""
    /\ extracting = FALSE
    /\ snackbar = NoSnackbar
    /\ extractsInFlight = <<>>

\* eventSourceRef.current = null
NoStream == [id |-> 0, service |-> "", level |-> ""]

\* The log viewer not on the page.
ViewerIdle ==
    /\ viewerMounted = FALSE
    /\ activeService = "backend"
    /\ logLevel = "all"
    /\ isStreaming = FALSE
    /\ eventSourceRef = NoStream
    /\ openStreams = {}
    /\ streamTimers = <<>>
    /\ streamsOpened = 0

UiIdle ==
    /\ LoginIdle
    /\ TreeIdle
    /\ ViewerIdle

\* No walkers at work, for the behaviours with one request at a time.
ConcIdle ==
    /\ procs = <<>>
    /\ counters = <<>>
    /\ applied = <<>>

EmptyDb == [c \in Collections |-> <<>>]

\* The storage part at rest, for the behaviours that do not touch it.
StoreIdle ==
    /\ alm = {}
    /\ db = EmptyDb
    /\ clock = 0
    /\ writeCount = 0
    /\ request = NoRequest
    /\ response = NoResponse

\* The fetch part at rest, for the behaviours that do not step through it.
FetchIdle ==
    /\ upstreamList = <<>>
    /\ fpc = "idle"
    /\ start_index = 0
    /\ all_domains = <<>>
    /\ requestLog = <<>>
    /\ lastTotal = -1

InitExpand ==
    /\ \E optional \in {{}, OptionalAlm} : alm = BaseAlm \cup optional
    /\ db = EmptyDb
    /\ clock = 0
    /\ writeCount = 0
    /\ request = NoRequest
    /\ response = NoResponse
    /\ FetchIdle
    /\ ExtractIdle
    /\ CallIdle
    /\ ConcIdle
    /\ UiIdle

NextExpand ==
    \/ expand_testplan_folder
    \/ expand_testplan_test
    \/ expand_design_step
    \/ expand_testlab_release
    \/ expand_testlab_cycle
    \/ expand_testlab_testset
    \/ expand_defect

SpecExpand == InitExpand /\ [][NextExpand]_vars

InitFetch ==
    /\ \E n \in FetchTotals : upstreamList = [i \in 1..n |-> i]
    /\ fpc = "idle"
    /\ start_index = 0
    /\ all_domains = <<>>
    /\ requestLog = <<>>
    /\ lastTotal = -1
    /\ StoreIdle
    /\ ExtractIdle
    /\ CallIdle
    /\ ConcIdle
    /\ UiIdle

NextFetch == FetchStart \/ FetchBatch

SpecFetch == InitFetch /\ [][NextFetch]_vars

----------------------------------------------------------------------------
(* Recursive extraction of a folder tree and its job record *)

\* if depth > 20
MaxDepth == 20

\* Depth of the deepest chain of folders tried.
DeepChain == 25

\* Subfolders of the root of the wide tree.
WideCount == 5

RootFolder == 1

\* A chain of folders 1 <- 2 <- ... <- d+1 (folder k at depth k-1), with a test
\* in every folder.
ChainAlm(d) ==
    {RawEntity("test-folders", RootFolder, "F", 0, "")}
    \cup {RawEntity("test-folders", k, "F", k - 1, "") : k \in 2..(d + 1)}
    \cup {RawEntity("tests", 100 + k, "T", k, "") : k \in 1..(d + 1)}

\* A root with WideCount subfolders, one test in each, one attachment on each test.
WideAlm ==
    {RawEntity("test-folders", RootFolder, "F", 0, "")}
    \cup {RawEntity("test-folders", 1 + k, "F", RootFolder, "") : k \in 1..WideCount}
    \cup {RawEntity("tests", 101 + k, "T", 1 + k, "") : k \in 1..WideCount}
    \cup {RawEntity("attachments", 5101 + k, "a.txt", 101 + k, "test") : k \in 1..WideCount}

ChainDepths == {2, MaxDepth - 1, MaxDepth, MaxDepth + 1, DeepChain}

\* A bug: the check lets one more level through.
DepthExceededLate(depth) == depth > MaxDepth + 1

\* if depth > 20: return {"error": "Max depth reached"}
DepthExceeded(depth) == depth > MaxDepth

\* A bug: the job starts with a folder counted that no fetch has stored.
NewJobCounted(username, folder_id, now) ==
    [extraction_id |-> 1,
     user |-> username,
     folder_id |-> folder_id,
     status |-> "in_progress",
     started_at |-> now,
     folders_extracted |-> 1,
     tests_extracted |-> 0,
     attachments_downloaded |-> 0]

\* The document extract_testplan_folder_recursive inserts.
NewJob(username, folder_id, now) ==
    [extraction_id |-> 1,
     user |-> username,
     folder_id |-> folder_id,
     status |-> "in_progress",
     started_at |-> now,
     folders_extracted |-> 0,
     tests_extracted |-> 0,
     attachments_downloaded |-> 0]

\* A call of extract_folder_tree(folder_id, depth) and where it stands.
Frame(folder_id, depth) ==
    [folder_id |-> folder_id, depth |-> depth, pc |-> "enter",
     subfolders |-> <<>>, tests |-> <<>>, i |-> 1]

Top == stack[Len(stack)]

Pop == SubSeq(stack, 1, Len(stack) - 1)

SetTop(frame) == [stack EXCEPT ![Len(stack)] = frame]

Running == job.status = "in_progress" /\ stack # <<>>

\* Storing what a fetch of the walk returned, as the expansion endpoints do.
Store(script) ==
    /\ db' = RunScript(db, script, 0)
    /\ writeCount' = writeCount + PutsDone(script, 0)

\* POST /api/extract_testplan_folder_recursive: create the job, start the task.
extract_testplan_folder_recursive ==
    /\ job = NoJob
    /\ \E username \in Users :
           job' = NewJob(username, RootFolder, clock + 1)
    /\ clock' = clock + 1
    /\ stack' = <<Frame(RootFolder, 0)>>
    /\ UNCHANGED <<alm, db, writeCount, request, response>>
    /\ UNCHANGED <<jobNotes, expanded, refused>>
    /\ UNCHANGED fetchVars
    /\ polled' = NoJob
    /\ UNCHANGED laterVars

\* extract_folder_tree entered below the limit: the call goes on.
EnterFolder ==
    /\ Running
    /\ Top.pc = "enter"
    /\ ~DepthExceeded(Top.depth)
    /\ stack' = SetTop([Top EXCEPT !.pc = "subfolders"])
    /\ expanded' = expanded \cup {<<Top.folder_id, Top.depth>>}
    /\ UNCHANGED <<job, jobNotes, refused>>
    /\ UNCHANGED storeVars
    /\ UNCHANGED fetchVars
    /\ polled' = NoJob
    /\ UNCHANGED laterVars

\* extract_folder_tree entered past the limit: return {"error": "Max depth
\* reached"}; the boundary condition goes to the notes of the job.
DepthLimitReached ==
    /\ Running
    /\ Top.pc = "enter"
    /\ DepthExceeded(Top.depth)
    /\ stack' = Pop
    /\ refused' = refused + 1
    /\ jobNotes' = [jobNotes EXCEPT !.notes = "Max depth reached"]
    /\ UNCHANGED <<job, expanded>>
    /\ UNCHANGED storeVars
    /\ UNCHANGED fetchVars
    /\ polled' = NoJob
    /\ UNCHANGED laterVars

\* 1. subfolders = fetch_test_folders(folder_id); stored and counted at once.
FetchSubfolders ==
    /\ Running
    /\ Top.pc = "subfolders"
    /\ LET subfolders == get_test_folders(Top.folder_id)
       IN  /\ Store(StoreEntities("test-folders", subfolders, job.user, Top.folder_id))
           /\ job' = [job EXCEPT !.folders_extracted = @ + Len(subfolders)]
           /\ stack' = SetTop([Top EXCEPT !.pc = "tests", !.subfolders = subfolders])
    /\ UNCHANGED <<alm, clock, request, response>>
    /\ UNCHANGED <<jobNotes, expanded, refused>>
    /\ UNCHANGED fetchVars
    /\ polled' = NoJob
    /\ UNCHANGED laterVars

\* A bug: the tests fetched are stored but the counter is left for later.
FetchFolderTestsUncounted ==
    /\ Running
    /\ Top.pc = "tests"
    /\ LET tests == get_tests(Top.folder_id)
       IN  /\ Store(StoreEntities("tests", tests, job.user, Top.folder_id))
           /\ stack' = SetTop([Top EXCEPT !.pc = "attachments", !.tests = tests])
    /\ UNCHANGED <<alm, clock, request, response>>
    /\ UNCHANGED <<job, jobNotes, expanded, refused>>
    /\ UNCHANGED fetchVars
    /\ polled' = NoJob
    /\ UNCHANGED laterVars

\* 2. tests = fetch_tests_for_folder(folder_id); stored and counted at once.
FetchFolderTests ==
    /\ Running
    /\ Top.pc = "tests"
    /\ LET tests == get_tests(Top.folder_id)
       IN  /\ Store(StoreEntities("tests", tests, job.user, Top.folder_id))
           /\ job' = [job EXCEPT !.tests_extracted = @ + Len(tests)]
           /\ stack' = SetTop([Top EXCEPT !.pc = "attachments", !.tests = tests])
    /\ UNCHANGED <<alm, clock, request, response>>
    /\ UNCHANGED <<jobNotes, expanded, refused>>
    /\ UNCHANGED fetchVars
    /\ polled' = NoJob
    /\ UNCHANGED laterVars

\* 3. folder_attachments = fetch_attachments("test-folder", folder_id)
FetchFolderAttachments ==
    /\ Running
    /\ Top.pc = "attachments"
    /\ LET folder_attachments == get_attachments(Top.folder_id, "test-folder")
       IN  /\ Store(StoreAttachments(folder_attachments, job.user, Top.folder_id, clock))
           /\ job' = [job EXCEPT !.attachments_downloaded = @ + Len(folder_attachments)]
           /\ stack' = SetTop([Top EXCEPT !.pc = "each_test", !.i = 1])
    /\ UNCHANGED <<alm, clock, request, response>>
    /\ UNCHANGED <<jobNotes, expanded, refused>>
    /\ UNCHANGED fetchVars
    /\ polled' = NoJob
    /\ UNCHANGED laterVars

\* 4. for test in tests: fetch_test_details, fetch_attachments("test", test.id)
FetchTestDetails ==
    /\ Running
    /\ Top.pc = "each_test"
    /\ Top.i <= Len(Top.tests)
    /\ LET test == Top.tests[Top.i]
           design_steps == get_design_steps(test.id)
           test_attachments == get_attachments(test.id, "test")
       IN  /\ Store(StoreEntities("design-steps", design_steps, job.user, test.id)
                    \o StoreAttachments(test_attachments, job.user, test.id, clock))
           /\ job' = [job EXCEPT !.attachments_downloaded = @ + Len(test_attachments)]
           /\ stack' = SetTop([Top EXCEPT !.i = @ + 1])
    /\ UNCHANGED <<alm, clock, request, response>>
    /\ UNCHANGED <<jobNotes, expanded, refused>>
    /\ UNCHANGED fetchVars
    /\ polled' = NoJob
    /\ UNCHANGED laterVars

\* The loop over the tests is through: on to "5. Recursively process subfolders".
TestsDone ==
    /\ Running
    /\ Top.pc = "each_test"
    /\ Top.i > Len(Top.tests)
    /\ stack' = SetTop([Top EXCEPT !.pc = "each_subfolder", !.i = 1])
    /\ UNCHANGED <<job, jobNotes, expanded, refused>>
    /\ UNCHANGED storeVars
    /\ UNCHANGED fetchVars
    /\ polled' = NoJob
    /\ UNCHANGED laterVars

\* A bug: the loop over the subfolders passes one by without the recursive call.
DescendSkipping ==
    /\ Running
    /\ Top.pc = "each_subfolder"
    /\ Top.i <= Len(Top.subfolders)
    /\ stack' = SetTop([Top EXCEPT !.i = @ + 1])
    /\ UNCHANGED <<job, jobNotes, expanded, refused>>
    /\ UNCHANGED storeVars
    /\ UNCHANGED fetchVars
    /\ polled' = NoJob
    /\ UNCHANGED laterVars

\* for subfolder in subfolders: extract_folder_tree(subfolder.id, depth + 1)
Descend ==
    /\ Running
    /\ Top.pc = "each_subfolder"
    /\ Top.i <= Len(Top.subfolders)
    /\ stack' = Append(SetTop([Top EXCEPT !.i = @ + 1]),
                       Frame(Top.subfolders[Top.i].id, Top.depth + 1))
    /\ UNCHANGED <<job, jobNotes, expanded, refused>>
    /\ UNCHANGED storeVars
    /\ UNCHANGED fetchVars
    /\ polled' = NoJob
    /\ UNCHANGED laterVars

\* A bug: the call that is through with its subfolders never returns.
ReturnNever ==
    /\ Running
    /\ Top.pc = "each_subfolder"
    /\ Top.i > Len(Top.subfolders)
    /\ UNCHANGED vars

\* return result
Return ==
    /\ Running
    /\ Top.pc = "each_subfolder"
    /\ Top.i > Len(Top.subfolders)
    /\ stack' = Pop
    /\ UNCHANGED <<job, jobNotes, expanded, refused>>
    /\ UNCHANGED storeVars
    /\ UNCHANGED fetchVars
    /\ polled' = NoJob
    /\ UNCHANGED laterVars

\* The outermost call returned: the job is completed.
CompleteJob ==
    /\ job.status = "in_progress"
    /\ stack = <<>>
    /\ job' = [job EXCEPT !.status = "completed"]
    /\ UNCHANGED <<jobNotes, stack, expanded, refused>>
    /\ UNCHANGED storeVars
    /\ UNCHANGED fetchVars
    /\ polled' = NoJob
    /\ UNCHANGED laterVars

\* A fetch raises after its retries: the exception leaves every call in
\* progress; the job is marked failed with the error, nothing is undone.
FetchFails ==
    /\ Running
    /\ \/ Top.pc \in {"subfolders", "tests", "attachments"}
       \/ Top.pc = "each_test" /\ Top.i <= Len(Top.tests)
    /\ job' = [job EXCEPT !.status = "failed"]
    /\ jobNotes' = [jobNotes EXCEPT !.error = "fetch failed"]
    /\ stack' = <<>>
    /\ UNCHANGED <<expanded, refused>>
    /\ UNCHANGED storeVars
    /\ UNCHANGED fetchVars
    /\ polled' = NoJob
    /\ UNCHANGED laterVars

\* A bug: the status is answered without the error recorded on the job.
find_one_bare(j, notes) ==
    [extraction_id |-> j.extraction_id,
     user |-> j.user,
     folder_id |-> j.folder_id,
     status |-> j.status,
     started_at |-> j.started_at,
     folders_extracted |-> j.folders_extracted,
     tests_extracted |-> j.tests_extracted,
     attachments_downloaded |-> j.attachments_downloaded,
     error |-> "",
     notes |-> ""]

\* db.testplan_extraction_results.find_one({"extraction_id": extraction_id}):
\* the document of the job as it stands, the error and notes set on it included.
find_one(j, notes) ==
    [extraction_id |-> j.extraction_id,
     user |-> j.user,
     folder_id |-> j.folder_id,
     status |-> j.status,
     started_at |-> j.started_at,
     folders_extracted |-> j.folders_extracted,
     tests_extracted |-> j.tests_extracted,
     attachments_downloaded |-> j.attachments_downloaded,
     error |-> notes.error,
     notes |-> notes.notes]

\* GET /api/get_extraction_status: the job read from the database, at any time.
get_extraction_status ==
    /\ job # NoJob
    /\ polled' = find_one(job, jobNotes)
    /\ UNCHANGED <<job, jobNotes, stack, expanded, refused>>
    /\ UNCHANGED storeVars
    /\ UNCHANGED fetchVars
    /\ UNCHANGED laterVars

InitExtract ==
    /\ alm \in {BaseAlm, WideAlm} \cup {ChainAlm(d) : d \in ChainDepths}
    /\ db = EmptyDb
    /\ clock = 0
    /\ writeCount = 0
    /\ request = NoRequest
    /\ response = NoResponse
    /\ FetchIdle
    /\ ExtractIdle
    /\ CallIdle
    /\ ConcIdle
    /\ UiIdle

NextExtract ==
    \/ extract_testplan_folder_recursive
    \/ EnterFolder
    \/ DepthLimitReached
    \/ FetchSubfolders
    \/ FetchFolderTests
    \/ FetchFolderAttachments
    \/ FetchTestDetails
    \/ TestsDone
    \/ Descend
    \/ Return
    \/ CompleteJob
    \/ FetchFails
    \/ get_extraction_status

SpecExtract == InitExtract /\ [][NextExtract]_vars

----------------------------------------------------------------------------
(* The walk on upstream data with cyclic parent references, and its end. *)

\* Two folders, each listed as the subfolder of the other, with a test.
CycleAlm ==
    { RawEntity("test-folders", RootFolder, "F1", 2, ""),
      RawEntity("test-folders", 2, "F2", RootFolder, ""),
      RawEntity("tests", 100, "T1", RootFolder, "") }

\* A folder listed as its own subfolder.
SelfCycleAlm ==
    { RawEntity("test-folders", RootFolder, "F1", RootFolder, "") }

InitExtractLive ==
    /\ alm \in {BaseAlm, CycleAlm, SelfCycleAlm}
    /\ db = EmptyDb
    /\ clock = 0
    /\ writeCount = 0
    /\ request = NoRequest
    /\ response = NoResponse
    /\ FetchIdle
    /\ ExtractIdle
    /\ CallIdle
    /\ ConcIdle
    /\ UiIdle

\* The steps of the background task: it runs on whatever the pollers do.
Walk ==
    \/ EnterFolder
    \/ DepthLimitReached
    \/ FetchSubfolders
    \/ FetchFolderTests
    \/ FetchFolderAttachments
    \/ FetchTestDetails
    \/ TestsDone
    \/ Descend
    \/ Return
    \/ CompleteJob
    \/ FetchFails

SpecExtractLive == InitExtractLive /\ [][NextExtract]_vars /\ WF_vars(Walk)

----------------------------------------------------------------------------
(* One call to ALM with its retry logic: alm.py, as PYENV_SETUP.md ("Retry   *)
(* Logic") and ALM_API_CONFIGURATION.md ("Error Handling") describe it       *)

\* "up to 3 retry attempts"
MaxAttempts == 3

\* Calls made one after the other in one behaviour.
MaxCalls == 2

Transients(log) == Cardinality({i \in 1..Len(log) : log[i] = "transient"})

\* A bug: a transient error is retried whatever the number of attempts made.
RetryAlways(log) == TRUE

\* A request that ended in a timeout, a 5xx or a reset is sent again while fewer
\* than MaxAttempts of the call's requests ended so.
RetryAllowed(log) == Transients(log) < MaxAttempts

\* A bug: every 401 is answered by a new login and a retry.
ReauthAlways(n) == n < MaxAttempts

\* "Automatic re-authentication on 401 errors", once per call.
ReauthAllowed(n) == n = 0

UnchangedByCall ==
    /\ UNCHANGED uiVars
    /\ UNCHANGED fetchVars
    /\ UNCHANGED storeVars
    /\ UNCHANGED extractVars
    /\ UNCHANGED concVars

\* api_call(...) is entered.
CallStart ==
    /\ cpc \in {"idle", "done", "failed"}
    /\ Len(callHistory) < MaxCalls
    /\ cpc' = "try"
    /\ callLog' = <<>>
    /\ reauths' = 0
    /\ UNCHANGED callHistory
    /\ UnchangedByCall

\* The request is answered with success: the call returns.
CallSucceeds ==
    /\ cpc = "try"
    /\ callLog' = Append(callLog, "ok")
    /\ cpc' = "done"
    /\ callHistory' = Append(callHistory, [log |-> callLog', end |-> "done"])
    /\ UNCHANGED reauths
    /\ UnchangedByCall

\* The request ends in a transient error: sent again, or escalated to the caller.
CallTransient ==
    /\ cpc = "try"
    /\ callLog' = Append(callLog, "transient")
    /\ IF RetryAllowed(callLog')
         THEN /\ cpc' = "try"
              /\ UNCHANGED callHistory
         ELSE /\ cpc' = "failed"
              /\ callHistory' = Append(callHistory, [log |-> callLog', end |-> "failed"])
    /\ UNCHANGED reauths
    /\ UnchangedByCall

\* The request is answered 401: a new login and the request again, or the call
\* fails.
CallUnauthorized ==
    /\ cpc = "try"
    /\ callLog' = Append(callLog, "unauthorized")
    /\ IF ReauthAllowed(reauths)
         THEN /\ cpc' = "try"
              /\ reauths' = reauths + 1
              /\ UNCHANGED callHistory
         ELSE /\ cpc' = "failed"
              /\ UNCHANGED reauths
              /\ callHistory' = Append(callHistory, [log |-> callLog', end |-> "failed"])
    /\ UnchangedByCall

InitCall ==
    /\ CallIdle
    /\ ConcIdle
    /\ UiIdle
    /\ FetchIdle
    /\ StoreIdle
    /\ ExtractIdle

NextCall ==
    \/ CallStart
    \/ CallSucceeds
    \/ CallTransient
    \/ CallUnauthorized

SpecCall == InitCall /\ [][NextCall]_vars

----------------------------------------------------------------------------
(* Walkers at work at the same time: two extractions of one user, or two
   branches of one traversal, with no lock between them.  Each write is the
   upsert of the storage step, taken as MongoDB runs it: the filter is looked
   up, then the document is replaced or inserted, and the unique index of the
   collection is checked at the insert.  Another walker may write in between. *)

Procs == {1, 2}

Jobs == {1, 2}

\* The walker whose writes are followed record by record.
ConcUser == "u1"

ConcFolder == 1

ConcTest == 100

\* The unique index of a collection (init_mongo.py): (user, id) on the entity
\* collections, (domain, project, attachment_id) on attachment_cache, with one
\* domain and one project here.
IndexKey(coll) ==
    IF coll = "attachment_cache" THEN {"attachment_id"} ELSE {"user", "id"}

DuplicateKey(docs, coll, doc) ==
    \E i \in 1..Len(docs) : KeyMatch(docs[i], doc, IndexKey(coll))

Written(docs) == [ok |-> TRUE, docs |-> docs]

E11000(docs) == [ok |-> FALSE, docs |-> docs]

\* An upsert with no index behind it: the insert goes through whatever another
\* writer has inserted since the lookup.
UpsertAfterMissNoIndex(docs, coll, key, doc) == {Written(Append(docs, doc))}

\* The ways an upsert can end when its lookup found no document: the insert,
\* or, when another writer has inserted the key since, the duplicate-key error
\* of the unique index, which the server retries as a replacement or raises.
UpsertAfterMiss(docs, coll, key, doc) ==
    IF DuplicateKey(docs, coll, doc)
      THEN {Written(replace_one(docs, key, doc)), E11000(docs)}
      ELSE {Written(Append(docs, doc))}

\* Atomic overwrite of the counter with a value computed from an earlier read.
set_counter(current, snapshot, delta) == snapshot + delta

\* Atomic additive increment of the counter ($inc).
inc_counter(current, snapshot, delta) == current + delta

\* The writes of a script, in order, without its calls to ALM.
Writes(script) == SelectSeq(script, LAMBDA item : item.op = "put")

\* The writes of a walk of the folder and of its test, made at time now.
WalkWrites(now) ==
    Writes(testplan_folder_script(ConcUser, ConcFolder, now))
    \o Writes(testplan_test_script(ConcUser, ConcTest, now))

TestWrites(now) == Writes(testplan_test_script(ConcUser, ConcTest, now))

\* The same writes when the records were renamed upstream before the fetch.
RenamedDoc(doc) ==
    IF "name" \in DOMAIN doc THEN [doc EXCEPT !.name = "renamed"]
    ELSE [doc EXCEPT !.filename = "renamed"]

Renamed(script) ==
    [i \in 1..Len(script) |-> [script[i] EXCEPT !.doc = RenamedDoc(@)]]

Proc(script, j) ==
    [script |-> script, idx |-> 1, phase |-> "find", matched |-> FALSE,
     snapshot |-> 0, status |-> "running", job |-> j]

CurrentWrite(p) == procs[p].script[procs[p].idx]

UnchangedByConc ==
    /\ UNCHANGED uiVars
    /\ UNCHANGED fetchVars
    /\ UNCHANGED <<alm, clock, writeCount, request, response>>
    /\ UNCHANGED extractVars
    /\ UNCHANGED callVars

\* The lookup of the upsert's filter, and the read of the job's counter.
ConcFind(p) ==
    /\ procs[p].status = "running"
    /\ procs[p].phase = "find"
    /\ LET item == CurrentWrite(p)
       IN  procs' = [procs EXCEPT
                       ![p].phase = "write",
                       ![p].matched = \E i \in 1..Len(db[item.coll]) :
                                          KeyMatch(db[item.coll][i], item.doc, item.key),
                       ![p].snapshot = counters[procs[p].job]]
    /\ UNCHANGED <<db, counters, applied>>
    /\ UnchangedByConc

\* What a walker does once its record is stored: it counts it on its job and
\* goes to its next write, or is done.
Advance(p, docs) ==
    LET item == CurrentWrite(p)
        j == procs[p].job
        last == procs[p].idx = Len(procs[p].script)
    IN  /\ db' = [db EXCEPT ![item.coll] = docs]
        /\ counters' = [counters EXCEPT ![j] = inc_counter(@, procs[p].snapshot, 1)]
        /\ applied' = [applied EXCEPT ![j] = @ + 1]
        /\ procs' = [procs EXCEPT
                       ![p].idx = IF last THEN @ ELSE @ + 1,
                       ![p].phase = "find",
                       ![p].status = IF last THEN "done" ELSE "running"]

\* The lookup found the document: it is replaced whole.
ConcReplace(p) ==
    /\ procs[p].status = "running"
    /\ procs[p].phase = "write"
    /\ procs[p].matched
    /\ LET item == CurrentWrite(p)
       IN  Advance(p, replace_one(db[item.coll], item.key, item.doc))
    /\ UnchangedByConc

\* The lookup found nothing: the document is inserted under the unique index.
ConcInsert(p) ==
    /\ procs[p].status = "running"
    /\ procs[p].phase = "write"
    /\ ~procs[p].matched
    /\ LET item == CurrentWrite(p)
       IN  \E out \in UpsertAfterMiss(db[item.coll], item.coll, item.key, item.doc) :
               /\ out.ok
               /\ Advance(p, out.docs)
    /\ UnchangedByConc

\* The insert hit the unique index and the error reached the walker: the
\* write is not made and the walker stops.
ConcDuplicateKeyError(p) ==
    /\ procs[p].status = "running"
    /\ procs[p].phase = "write"
    /\ ~procs[p].matched
    /\ LET item == CurrentWrite(p)
       IN  \E out \in UpsertAfterMiss(db[item.coll], item.coll, item.key, item.doc) :
               ~out.ok
    /\ procs' = [procs EXCEPT ![p].status = "failed"]
    /\ UNCHANGED <<db, counters, applied>>
    /\ UnchangedByConc

InitConc ==
    /\ UiIdle
    /\ alm = BaseAlm
    /\ db = EmptyDb
    /\ clock = 0
    /\ writeCount = 0
    /\ request = NoRequest
    /\ response = NoResponse
    /\ FetchIdle
    /\ ExtractIdle
    /\ CallIdle
    /\ \E second \in {Renamed(WalkWrites(2)), Renamed(TestWrites(2))}, j \in Jobs :
           procs = [p \in Procs |->
                       IF p = 1 THEN Proc(WalkWrites(1), 1) ELSE Proc(second, j)]
    /\ counters = [j \in Jobs |-> 0]
    /\ applied = [j \in Jobs |-> 0]

NextConc ==
    \/ \E p \in Procs : ConcFind(p)
    \/ \E p \in Procs : ConcReplace(p)
    \/ \E p \in Procs : ConcInsert(p)
    \/ \E p \in Procs : ConcDuplicateKeyError(p)

SpecConc == InitConc /\ [][NextConc]_vars

----------------------------------------------------------------------------
(* The login page (pages/Login.tsx) inside the application (App.tsx).  Each
   handler is followed from await to await: the step that sends a request and
   the step that takes its answer, whatever the answer is. *)

MaxApiCalls == 5

Usernames == {"admin", "Admin", "u1"}

\* username.toLowerCase()
toLowerCase(u) == IF u = "Admin" THEN "admin" ELSE u

\* The lists the backend can answer with.
DomainLists == {<<"D1", "D2">>, <<"D2">>}

ProjectLists == {<<>>, <<"P1", "P2">>, <<"P3">>}

Elems(list) == {list[i] : i \in 1..Len(list)}

ApiCall(call, domain, project, answer) ==
    [call |-> call, domain |-> domain, project |-> project, answer |-> answer]

\* The answer of the call made last is noted on it.
Answered(calls, answer) == [calls EXCEPT ![Len(calls)].answer = answer]

LoginMounted == ~isAuthenticated /\ ~loginState.crashed

UnchangedByLogin ==
    /\ UNCHANGED backendVars
    /\ UNCHANGED treeVars
    /\ UNCHANGED viewerVars

\* A bug: the Login button is there whether a project is selected or not.
LoginButtonAlways(state) == TRUE

\* <Button onClick={handleLogin} disabled={!state.selectedProject}>
LoginButtonEnabled(state) == state.selectedProject # ""

\* const role = state.username.toLowerCase() === 'admin' ? 'admin' : 'user'
RoleOf(username) == IF toLowerCase(username) = "admin" THEN "admin" ELSE "user"

\* App.handleLogin(role)
AppHandleLogin(role, storage) ==
    /\ isAuthenticated' = TRUE
    /\ userRole' = role
    /\ localStorage' = [storage EXCEPT !["role"] = role]
    /\ sessionRole' = role

\* handleAuthSubmit up to its first await: authenticate(username, password)
handleAuthSubmit(u) ==
    /\ LoginMounted
    /\ loginState.step = 1
    /\ ~loginState.loading
    /\ loginPc = "idle"
    /\ Len(apiCalls) + 2 <= MaxApiCalls
    /\ loginState' = [loginState EXCEPT !.username = u, !.loading = TRUE, !.error = ""]
    /\ loginPc' = "auth"
    /\ apiCalls' = Append(apiCalls, ApiCall("authenticate", "", "", <<"pending">>))
    /\ UNCHANGED <<loginsInFlight, localStorage, isAuthenticated, userRole, sessionRole>>
    /\ UnchangedByLogin

\* The answer of authenticate: res.data.ok, not ok, or the request failed.
AuthAnswered ==
    /\ loginPc = "auth"
    /\ \E outcome \in {"ok", "refused", "failed"} :
           /\ apiCalls' = Answered(apiCalls, <<outcome>>)
           /\ IF outcome = "ok"
                THEN /\ loginPc' = "register"
                     /\ UNCHANGED loginState
                ELSE /\ loginPc' = "idle"
                     /\ loginState' = [loginState EXCEPT
                            !.error = IF outcome = "refused" THEN "Authentication failed"
                                      ELSE "Invalid username or password",
                            !.loading = FALSE]
    /\ UNCHANGED <<loginsInFlight, localStorage, isAuthenticated, userRole, sessionRole>>
    /\ UnchangedByLogin

\* The registration answered, well or not ("Continue anyway"): the admin is let
\* in at once, for a regular user the domains are requested.
RegisterAnswered ==
    /\ loginPc = "register"
    /\ IF RoleOf(loginState.username) = "admin"
         THEN /\ AppHandleLogin("admin",
                    [localStorage EXCEPT !["user"] = loginState.username,
                                         !["role"] = "admin"])
              /\ loginPc' = "idle"
              /\ UNCHANGED apiCalls
         ELSE /\ apiCalls' = Append(apiCalls, ApiCall("get_domains", "", "", <<"pending">>))
              /\ loginPc' = "domains"
              /\ UNCHANGED <<localStorage, isAuthenticated, userRole, sessionRole>>
    /\ UNCHANGED <<loginState, loginsInFlight>>
    /\ UnchangedByLogin

\* The answer of getDomains: the list, an error body (validateStatus lets every
\* status through; the page then fails to render it), or the request failed.
DomainsAnswered ==
    /\ loginPc = "domains"
    /\ loginPc' = "idle"
    /\ \/ \E list \in DomainLists :
              /\ apiCalls' = Answered(apiCalls, list)
              /\ loginState' = [loginState EXCEPT
                                  !.step = 2, !.domains = list, !.loading = FALSE]
       \/ /\ apiCalls' = Answered(apiCalls, <<>>)
          /\ loginState' = [loginState EXCEPT
                              !.step = 2, !.loading = FALSE, !.crashed = TRUE]
       \/ /\ apiCalls' = Answered(apiCalls, <<>>)
          /\ loginState' = [loginState EXCEPT
                              !.error = "Invalid username or password", !.loading = FALSE]
    /\ UNCHANGED <<loginsInFlight, localStorage, isAuthenticated, userRole, sessionRole>>
    /\ UnchangedByLogin

\* handleDomainChange up to its await: a domain of the list is picked.
handleDomainChange(domainName) ==
    /\ LoginMounted
    /\ loginState.step = 2
    /\ ~loginState.loading
    /\ loginPc = "idle"
    /\ domainName \in Elems(loginState.domains)
    /\ domainName # loginState.selectedDomain
    /\ Len(apiCalls) + 1 <= MaxApiCalls
    /\ loginState' = [loginState EXCEPT
                        !.selectedDomain = domainName, !.loading = TRUE, !.error = ""]
    /\ loginPc' = "projects"
    /\ apiCalls' = Append(apiCalls, ApiCall("get_projects", domainName, "", <<"pending">>))
    /\ UNCHANGED <<loginsInFlight, localStorage, isAuthenticated, userRole, sessionRole>>
    /\ UnchangedByLogin

\* The answer of getProjects: a list (empty: an error is shown), an error body,
\* or the request failed.
ProjectsAnswered ==
    /\ loginPc = "projects"
    /\ loginPc' = "idle"
    /\ \/ \E list \in ProjectLists :
              /\ apiCalls' = Answered(apiCalls, list)
              /\ loginState' =
                    IF Len(list) = 0
                      THEN [loginState EXCEPT !.error = "No projects found", !.loading = FALSE]
                      ELSE [loginState EXCEPT
                              !.step = 3, !.projects = list, !.loading = FALSE]
       \/ /\ apiCalls' = Answered(apiCalls, <<>>)
          /\ loginState' = [loginState EXCEPT
                              !.step = 3, !.loading = FALSE, !.crashed = TRUE]
       \/ /\ apiCalls' = Answered(apiCalls, <<>>)
          /\ loginState' = [loginState EXCEPT
                              !.error = "Failed to load projects", !.loading = FALSE]
    /\ UNCHANGED <<loginsInFlight, localStorage, isAuthenticated, userRole, sessionRole>>
    /\ UnchangedByLogin

\* handleProjectChange: a project of the list is picked.
handleProjectChange(project) ==
    /\ LoginMounted
    /\ loginState.step = 3
    /\ project \in Elems(loginState.projects)
    /\ project # loginState.selectedProject
    /\ loginState' = [loginState EXCEPT !.selectedProject = project]
    /\ UNCHANGED <<loginPc, loginsInFlight, apiCalls, localStorage,
                   isAuthenticated, userRole, sessionRole>>
    /\ UnchangedByLogin

\* handleLogin up to its await: axios.post('/api/login', {username, domain, project})
handleLogin ==
    /\ LoginMounted
    /\ loginState.step = 3
    /\ LoginButtonEnabled(loginState)
    /\ Len(apiCalls) + 1 <= MaxApiCalls
    /\ loginState' = [loginState EXCEPT !.loading = TRUE]
    /\ apiCalls' = Append(apiCalls,
                       ApiCall("login", loginState.selectedDomain,
                               loginState.selectedProject, <<"pending">>))
    /\ loginsInFlight' = Append(loginsInFlight,
                            [username |-> loginState.username,
                             domain |-> loginState.selectedDomain,
                             project |-> loginState.selectedProject,
                             stale |-> FALSE])
    /\ UNCHANGED <<loginPc, localStorage, isAuthenticated, userRole, sessionRole>>
    /\ UnchangedByLogin

RemoveAt(seq, k) == SubSeq(seq, 1, k - 1) \o SubSeq(seq, k + 1, Len(seq))

\* The page that sent the requests in flight is gone: what they still do to its
\* state is lost.
Stale(reqs) == [i \in 1..Len(reqs) |-> [reqs[i] EXCEPT !.stale = TRUE]]

\* A login request is answered well: the session is stored, onLogin(role).
LoginSucceeded ==
    /\ \E k \in 1..Len(loginsInFlight) :
           LET req == loginsInFlight[k]
           IN  /\ AppHandleLogin(RoleOf(req.username),
                      [localStorage EXCEPT !["user"] = req.username,
                                           !["domain"] = req.domain,
                                           !["project"] = req.project,
                                           !["role"] = RoleOf(req.username)])
               /\ loginsInFlight' = Stale(RemoveAt(loginsInFlight, k))
    /\ UNCHANGED <<loginState, loginPc, apiCalls>>
    /\ UnchangedByLogin

\* A login request fails: the error is shown, on the page that sent it.
LoginFailed ==
    /\ \E k \in 1..Len(loginsInFlight) :
           /\ loginState' =
                 IF loginsInFlight[k].stale THEN loginState
                 ELSE [loginState EXCEPT
                         !.error = "Login failed. Please try again.", !.loading = FALSE]
           /\ loginsInFlight' = RemoveAt(loginsInFlight, k)
    /\ UNCHANGED <<loginPc, apiCalls, localStorage, isAuthenticated, userRole, sessionRole>>
    /\ UnchangedByLogin

\* App.handleLogout, called by Home and by AdminDashboard.
handleLogout ==
    /\ isAuthenticated
    /\ isAuthenticated' = FALSE
    /\ userRole' = ""
    /\ localStorage' = EmptyStorage
    /\ sessionRole' = ""
    /\ loginState' = InitialLoginState
    /\ loginPc' = "idle"
    /\ UNCHANGED <<loginsInFlight, apiCalls>>
    /\ UnchangedByLogin

\* if (user && role && domain && project) { setIsAuthenticated(true); setUserRole(role) }
SessionStored(storage) ==
    /\ storage["user"] # ""
    /\ storage["role"] # ""
    /\ storage["domain"] # ""
    /\ storage["project"] # ""

\* The page is opened again: every component starts anew, the requests in
\* flight are gone, and App's useEffect restores the session from localStorage.
StartUp ==
    /\ loginState' = InitialLoginState
    /\ loginPc' = "idle"
    /\ loginsInFlight' = <<>>
    /\ isAuthenticated' = SessionStored(localStorage)
    /\ userRole' = IF SessionStored(localStorage) THEN localStorage["role"] ELSE ""
    /\ UNCHANGED <<apiCalls, localStorage, sessionRole>>
    /\ UnchangedByLogin

InitLogin ==
    /\ FetchIdle
    /\ StoreIdle
    /\ ExtractIdle
    /\ CallIdle
    /\ ConcIdle
    /\ UiIdle

NextLogin ==
    \/ \E u \in Usernames : handleAuthSubmit(u)
    \/ AuthAnswered
    \/ RegisterAnswered
    \/ DomainsAnswered
    \/ \E d \in Elems(loginState.domains) : handleDomainChange(d)
    \/ ProjectsAnswered
    \/ \E p \in Elems(loginState.projects) : handleProjectChange(p)
    \/ handleLogin
    \/ LoginSucceeded
    \/ LoginFailed
    \/ handleLogout
    \/ StartUp

SpecLogin == InitLogin /\ [][NextLogin]_vars

----------------------------------------------------------------------------
(* The tree view (components/TestTree.tsx) on the TestPlan tab.  The handlers
   are followed from await to await; a click reads the node as it is on the
   screen at that moment. *)

MaxChildRequests == 2

MaxInFlight == 2

\* A node as the backend sends it.
RawNode(id, type, has_children, children) ==
    [id |-> id, type |-> type, has_children |-> has_children, children |-> children]

NodeIds == {"F1", "F2", "T1", "A1"}

RawT1 == RawNode("T1", "test", TRUE, <<>>)

\* What the backend answers when asked for the children of a node.
RawChildren(id) ==
    CASE id = "F1" -> << RawNode("F2", "folder", TRUE, <<>>), RawT1 >>
      [] id = "T1" -> << RawNode("A1", "attachment", FALSE, <<>>) >>
      [] OTHER -> <<>>

\* The root level getTree answers with: the folder bare, or with its test in it.
RootLevels ==
    { << RawNode("F1", "folder", TRUE, <<>>) >>,
      << RawNode("F1", "folder", TRUE, <<RawT1>>) >> }

\* addExpandedState, for a node and (MapAdd) for a list of nodes
RECURSIVE addExpandedState(_)
addExpandedState(treenode) ==
    [id |-> treenode.id,
     type |-> treenode.type,
     has_children |-> treenode.has_children,
     expanded |-> FALSE,
     loaded |-> Len(treenode.children) > 0,
     children |-> [i \in 1..Len(treenode.children) |->
                      addExpandedState(treenode.children[i])]]

MapAdd(raws) == [i \in 1..Len(raws) |-> addExpandedState(raws[i])]

RECURSIVE updateNodeChildren(_, _, _, _)
updateNodeChildren(nodes, nodeId, children, hasChildren) ==
    [i \in 1..Len(nodes) |->
        IF nodes[i].id = nodeId
          THEN [nodes[i] EXCEPT !.expanded = Len(children) > 0,
                                !.loaded = TRUE,
                                !.has_children = hasChildren,
                                !.children = children]
          ELSE IF Len(nodes[i].children) > 0
                 THEN [nodes[i] EXCEPT
                         !.children = updateNodeChildren(@, nodeId, children, hasChildren)]
                 ELSE nodes[i]]

RECURSIVE updateNodeExpanded(_, _)
updateNodeExpanded(nodes, nodeId) ==
    [i \in 1..Len(nodes) |->
        IF nodes[i].id = nodeId
          THEN [nodes[i] EXCEPT !.expanded = ~@]
          ELSE IF Len(nodes[i].children) > 0
                 THEN [nodes[i] EXCEPT !.children = updateNodeExpanded(@, nodeId)]
                 ELSE nodes[i]]

\* renderTreeNode: the nodes on the screen, the children of a node only under
\* <Collapse in={treenode.expanded} unmountOnExit>.
RECURSIVE Rendered(_)
Rendered(nodes) ==
    UNION { {nodes[i]} \cup (IF nodes[i].expanded THEN Rendered(nodes[i].children) ELSE {}) :
            i \in 1..Len(nodes) }

\* if (loading) return <Typography>Loading...</Typography>
OnScreen == IF treeLoading THEN {} ELSE Rendered(treeData)

UnchangedByTree ==
    /\ UNCHANGED backendVars
    /\ UNCHANGED loginVars
    /\ UNCHANGED viewerVars

\* toggleNode on a node whose children are to be fetched: the request is sent
\* (loadTree for a folder, with setLoading(true); getTestChildren for a test).
toggleNodeFetch(treenode) ==
    /\ treenode \in OnScreen
    /\ treenode.has_children
    /\ ~treenode.expanded /\ ~treenode.loaded /\ treenode.has_children
    /\ requested[treenode.id] < MaxChildRequests
    /\ childRequests' = Append(childRequests, [id |-> treenode.id, type |-> treenode.type])
    /\ requested' = [requested EXCEPT ![treenode.id] = @ + 1]
    /\ treeLoading' = (treenode.type = "folder" \/ treeLoading)
    /\ UNCHANGED <<treeData, contextMenu, extracting, snackbar, extractsInFlight>>
    /\ UnchangedByTree

\* toggleNode otherwise: "Just toggle expanded state"
toggleNodeFlip(treenode) ==
    /\ treenode \in OnScreen
    /\ treenode.has_children
    /\ ~(~treenode.expanded /\ ~treenode.loaded /\ treenode.has_children)
    /\ treeData' = updateNodeExpanded(treeData, treenode.id)
    /\ UNCHANGED <<treeLoading, childRequests, requested, contextMenu, extracting,
                   snackbar, extractsInFlight>>
    /\ UnchangedByTree

\* loadTree(folder_id) answered: the children, or [] when the request failed or
\* its answer could not be read (catch: return []); finally setLoading(false).
FolderChildrenAnswered ==
    /\ \E k \in 1..Len(childRequests) :
           /\ childRequests[k].type = "folder"
           /\ \E children \in {MapAdd(RawChildren(childRequests[k].id)), <<>>} :
                  treeData' = updateNodeChildren(treeData, childRequests[k].id,
                                                 children, Len(children) > 0)
           /\ childRequests' = RemoveAt(childRequests, k)
    /\ treeLoading' = FALSE
    /\ UNCHANGED <<requested, contextMenu, extracting, snackbar, extractsInFlight>>
    /\ UnchangedByTree

\* getTestChildren answered with the children of the test.
TestChildrenAnswered ==
    /\ \E k \in 1..Len(childRequests) :
           /\ childRequests[k].type = "test"
           /\ LET children == MapAdd(RawChildren(childRequests[k].id))
              IN  treeData' = updateNodeChildren(treeData, childRequests[k].id,
                                                 children, Len(children) > 0)
           /\ childRequests' = RemoveAt(childRequests, k)
    /\ UNCHANGED <<treeLoading, requested, contextMenu, extracting, snackbar,
                   extractsInFlight>>
    /\ UnchangedByTree

\* getTestChildren failed, or answered an error body (res.data.tree.map
\* throws): toggleNode ends there, nothing is set.
TestChildrenFailed ==
    /\ \E k \in 1..Len(childRequests) :
           /\ childRequests[k].type = "test"
           /\ childRequests' = RemoveAt(childRequests, k)
    /\ UNCHANGED <<treeData, treeLoading, requested, contextMenu, extracting, snackbar,
                   extractsInFlight>>
    /\ UnchangedByTree

\* handleContextMenu: the menu opens on folder nodes only.
handleContextMenu(treenode) ==
    /\ treenode \in OnScreen
    /\ treenode.type = "folder"
    /\ contextMenu' = treenode.id
    /\ UNCHANGED <<treeData, treeLoading, childRequests, requested, extracting, snackbar,
                   extractsInFlight>>
    /\ UnchangedByTree

handleCloseContext ==
    /\ ~treeLoading
    /\ contextMenu # ""
    /\ contextMenu' = ""
    /\ UNCHANGED <<treeData, treeLoading, childRequests, requested, extracting, snackbar,
                   extractsInFlight>>
    /\ UnchangedByTree

Notice(severity, message) == [open |-> TRUE, severity |-> severity, message |-> message]

\* <MenuItem onClick={handleExtractFolder} disabled={extracting}>
ExtractItemEnabled(flag) == ~flag

\* handleExtractFolder up to its await
handleExtractFolder ==
    /\ ~treeLoading
    /\ contextMenu # ""
    /\ ExtractItemEnabled(extracting)
    /\ Len(extractsInFlight) < MaxInFlight
    /\ contextMenu' = ""
    /\ extracting' = TRUE
    /\ snackbar' = Notice("success", "Extracting")
    /\ extractsInFlight' = Append(extractsInFlight, "extract")
    /\ UNCHANGED <<treeData, treeLoading, childRequests, requested>>
    /\ UnchangedByTree

\* handleExportToJSON up to its await: <MenuItem onClick={handleExportToJSON}>
handleExportToJSON ==
    /\ ~treeLoading
    /\ contextMenu # ""
    /\ Len(extractsInFlight) < MaxInFlight
    /\ contextMenu' = ""
    /\ extracting' = TRUE
    /\ extractsInFlight' = Append(extractsInFlight, "export")
    /\ UNCHANGED <<treeData, treeLoading, childRequests, requested, snackbar>>
    /\ UnchangedByTree

\* One request of the kind is answered: it is in flight no more.
AnswerOne(kind) ==
    \E k \in 1..Len(extractsInFlight) :
        /\ extractsInFlight[k] = kind
        /\ extractsInFlight' = RemoveAt(extractsInFlight, k)

\* The extraction answered with success: the success message; finally
\* setExtracting(false).
ExtractSucceeded ==
    /\ AnswerOne("extract")
    /\ snackbar' = Notice("success", "Successfully extracted")
    /\ extracting' = FALSE
    /\ UNCHANGED <<treeData, treeLoading, childRequests, requested, contextMenu>>
    /\ UnchangedByTree

\* The backend answered with an error: validateStatus lets every status
\* through, response.data.success is not set, and there is no else.
ExtractRefused ==
    /\ AnswerOne("extract")
    /\ extracting' = FALSE
    /\ UNCHANGED <<treeData, treeLoading, childRequests, requested, contextMenu, snackbar>>
    /\ UnchangedByTree

\* The request failed: catch, the error message.
ExtractFailed ==
    /\ AnswerOne("extract")
    /\ snackbar' = Notice("error", "Extraction failed")
    /\ extracting' = FALSE
    /\ UNCHANGED <<treeData, treeLoading, childRequests, requested, contextMenu>>
    /\ UnchangedByTree

\* The export answered: the file is made and the success message shown, or
\* the error message; finally setExtracting(false).
ExportAnswered ==
    /\ AnswerOne("export")
    /\ \E notice \in {Notice("success", "Tree exported"), Notice("error", "Export failed")} :
           snackbar' = notice
    /\ extracting' = FALSE
    /\ UNCHANGED <<treeData, treeLoading, childRequests, requested, contextMenu>>
    /\ UnchangedByTree

\* handleCloseSnackbar, by the user or after autoHideDuration
handleCloseSnackbar ==
    /\ snackbar.open
    /\ snackbar' = [snackbar EXCEPT !.open = FALSE]
    /\ UNCHANGED <<treeData, treeLoading, childRequests, requested, contextMenu,
                   extracting, extractsInFlight>>
    /\ UnchangedByTree

\* The tree view with its root level loaded (useEffect: loadTree()).
InitTree ==
    /\ FetchIdle
    /\ StoreIdle
    /\ ExtractIdle
    /\ CallIdle
    /\ ConcIdle
    /\ LoginIdle
    /\ ViewerIdle
    /\ \E level \in RootLevels : treeData = MapAdd(level)
    /\ treeLoading = FALSE
    /\ childRequests = <<>>
    /\ requested = [id \in NodeIds |-> 0]
    /\ contextMenu = ""
    /\ extracting = FALSE
    /\ snackbar = NoSnackbar
    /\ extractsInFlight = <<>>

NextTree ==
    \/ \E treenode \in OnScreen : toggleNodeFetch(treenode)
    \/ \E treenode \in OnScreen : toggleNodeFlip(treenode)
    \/ FolderChildrenAnswered
    \/ TestChildrenAnswered
    \/ TestChildrenFailed
    \/ \E treenode \in OnScreen : handleContextMenu(treenode)
    \/ handleCloseContext
    \/ handleExtractFolder
    \/ handleExportToJSON
    \/ ExtractSucceeded
    \/ ExtractRefused
    \/ ExtractFailed
    \/ ExportAnswered
    \/ handleCloseSnackbar

SpecTree == InitTree /\ [][NextTree]_vars

----------------------------------------------------------------------------
(* The log viewer (components/LogsViewer.tsx), seen by an admin.  The ref
   outlives the renders; a callback set by setTimeout keeps the service and
   the level of the render that set it. *)

MaxStreams == 3

Services == {"backend", "mock-alm"}

Levels == {"all", "ERROR"}

UnchangedByViewer ==
    /\ UNCHANGED backendVars
    /\ UNCHANGED loginVars
    /\ UNCHANGED treeVars

\* setIsStreaming(value): the state of a viewer that left the page is gone.
SetIsStreaming(value) == isStreaming' = IF viewerMounted THEN value ELSE isStreaming

\* stopStreaming: the stream of the ref is closed and the ref set to null.
stopStreaming ==
    /\ openStreams' = openStreams \ {eventSourceRef}
    /\ eventSourceRef' = NoStream
    /\ SetIsStreaming(FALSE)
    /\ UNCHANGED streamsOpened

\* startStreaming(service) of a render with the given level: stopStreaming(),
\* then new EventSource(url), kept in the ref.
startStreaming(service, level) ==
    LET eventSource == [id |-> streamsOpened + 1, service |-> service, level |-> level]
    IN  /\ openStreams' = (openStreams \ {eventSourceRef}) \cup {eventSource}
        /\ eventSourceRef' = eventSource
        /\ SetIsStreaming(TRUE)
        /\ streamsOpened' = streamsOpened + 1

StreamsLeft == streamsOpened + Len(streamTimers) < MaxStreams

handleToggleStreaming ==
    /\ viewerMounted
    /\ IF isStreaming
         THEN stopStreaming
         ELSE StreamsLeft /\ startStreaming(activeService, logLevel)
    /\ UNCHANGED <<viewerMounted, activeService, logLevel, streamTimers>>
    /\ UnchangedByViewer

\* Log Level Select onChange: setLogLevel; if (isStreaming) { stopStreaming();
\* setTimeout(() => startStreaming(activeService), 100) }
handleLogLevelChange(level) ==
    /\ viewerMounted
    /\ level # logLevel
    /\ logLevel' = level
    /\ IF isStreaming
         THEN /\ StreamsLeft
              /\ stopStreaming
              /\ streamTimers' = Append(streamTimers,
                                    [service |-> activeService, level |-> logLevel])
         ELSE UNCHANGED <<openStreams, eventSourceRef, isStreaming, streamsOpened,
                          streamTimers>>
    /\ UNCHANGED <<viewerMounted, activeService>>
    /\ UnchangedByViewer

\* The timeout runs: startStreaming of the render that set it.
TimeoutRuns ==
    /\ streamTimers # <<>>
    /\ startStreaming(Head(streamTimers).service, Head(streamTimers).level)
    /\ streamTimers' = Tail(streamTimers)
    /\ UNCHANGED <<viewerMounted, activeService, logLevel>>
    /\ UnchangedByViewer

\* handleServiceChange: setActiveService, stopStreaming (and again in the
\* cleanup of the effect on activeService), fetchLogs.
handleServiceChange(service) ==
    /\ viewerMounted
    /\ service # activeService
    /\ activeService' = service
    /\ stopStreaming
    /\ UNCHANGED <<viewerMounted, logLevel, streamTimers>>
    /\ UnchangedByViewer

\* eventSource.onerror of a stream that is open: stopStreaming()
StreamError ==
    /\ openStreams # {}
    /\ stopStreaming
    /\ UNCHANGED <<viewerMounted, activeService, logLevel, streamTimers>>
    /\ UnchangedByViewer

\* The viewer leaves the page: the cleanup of the effect, stopStreaming().
ViewerUnmount ==
    /\ viewerMounted
    /\ viewerMounted' = FALSE
    /\ openStreams' = openStreams \ {eventSourceRef}
    /\ eventSourceRef' = NoStream
    /\ UNCHANGED <<activeService, logLevel, isStreaming, streamTimers, streamsOpened>>
    /\ UnchangedByViewer

\* The admin opens the page of the logs.
InitViewer ==
    /\ FetchIdle
    /\ StoreIdle
    /\ ExtractIdle
    /\ CallIdle
    /\ ConcIdle
    /\ LoginIdle
    /\ TreeIdle
    /\ viewerMounted = TRUE
    /\ activeService = "backend"
    /\ logLevel = "all"
    /\ isStreaming = FALSE
    /\ eventSourceRef = NoStream
    /\ openStreams = {}
    /\ streamTimers = <<>>
    /\ streamsOpened = 0

NextViewer ==
    \/ handleToggleStreaming
    \/ \E level \in Levels : handleLogLevelChange(level)
    \/ TimeoutRuns
    \/ \E service \in Services : handleServiceChange(service)
    \/ StreamError
    \/ ViewerUnmount

SpecViewer == InitViewer /\ [][NextViewer]_vars

----------------------------------------------------------------------------
(* Claims on the paginated fetch *)

\* C1: when the fetch is done, the accumulator holds exactly the N records of the
\* upstream list, each exactly once and none missing (in the upstream order).
C1_FetchComplete ==
    fpc = "done" =>
        /\ Len(all_domains) = Len(upstreamList)
        /\ all_domains = upstreamList
        /\ Cardinality(Range(all_domains)) = Len(all_domains)

\* A completed fetch of a list of 250 records spread over three pages.
C1_Witness == fpc = "done" /\ Len(upstreamList) = 250 /\ Len(all_domains) = 250

\* C2: the first request is at start-index 1 with page size 100; a next request
\* is made, at the previous start-index + 100, exactly when the page just received
\* holds 100 records; the loop stops at the first page with fewer than 100 records
\* (zero included), whatever TotalResults the responses carried.
C2_PagingDecision ==
    /\ \A i \in 1..Len(requestLog) :
         /\ requestLog[i].page_size = 100
         /\ requestLog[i].start = 1 + 100 * (i - 1)
         /\ i < Len(requestLog) => requestLog[i].count = 100
    /\ fpc = "loop" /\ Len(requestLog) > 0 =>
         /\ requestLog[Len(requestLog)].count = 100
         /\ start_index = requestLog[Len(requestLog)].start + 100
    /\ fpc = "loop" /\ Len(requestLog) = 0 => start_index = 1
    /\ fpc = "done" =>
         /\ Len(requestLog) > 0
         /\ requestLog[Len(requestLog)].count < 100

\* A fetch that stopped on an empty second page although the response carried
\* a TotalResults larger than what had been fetched.
C2_Witness ==
    /\ fpc = "done"
    /\ Len(requestLog) = 2
    /\ requestLog[2].count = 0
    /\ lastTotal > Len(all_domains)

CeilDiv(a, b) == (a + b - 1) \div b

----------------------------------------------------------------------------
(* Claims on storage and the expansion endpoints *)

\* The step taken handled a request (every handler reads the clock once).
Handled == clock' = clock + 1

\* C4 as stated: expanding the same parent node a second time, with the upstream
\* data unchanged, leaves storage exactly as the first expansion left it: no
\* document added, no document changed.
C4_Original_SameStorage ==
    [][(/\ Handled
        /\ request' = request
        /\ response.success
        /\ response'.success) => db' = db]_vars

\* C5: in every reachable storage state no two entity records share
\* (user, entity_type, id), also when the same key was written more than once.
C5_UniqueEntity ==
    \A c1 \in EntityCollections, c2 \in EntityCollections :
        \A i \in 1..Len(db[c1]), j \in 1..Len(db[c2]) :
            (/\ db[c1][i].user = db[c2][j].user
             /\ db[c1][i].entity_type = db[c2][j].entity_type
             /\ db[c1][i].id = db[c2][j].id)
            => (c1 = c2 /\ i = j)

RECURSIVE SumLen(_)
SumLen(S) ==
    IF S = {} THEN 0
    ELSE LET c == CHOOSE x \in S : TRUE IN Len(db[c]) + SumLen(S \ {c})

\* More writes were made than documents are stored: a write met its own key.
C5_Witness ==
    /\ clock = 2
    /\ response.success
    /\ SumLen(EntityCollections) >= 3
    /\ writeCount > SumLen(Collections)

\* The collection the specification gives to the attachments of a parent kind.
CollectionOfParentKind(parent_type) ==
    CASE parent_type = "test-folder" -> "testplan_folder_attachments"
      [] parent_type = "test" -> "testplan_test_attachments"
      [] parent_type = "design-step" -> "testplan_test_design_step_attachments"
      [] parent_type = "test-set" -> "testlab_testset_attachments"
      [] parent_type = "defect" -> "defect_attachments"
      [] OTHER -> "none"

\* C6: an attachment is stored only in the collection of its own parent kind
\* (folder, test, design-step, test-set, defect), never in the attachment
\* collection of another kind nor in a collection of entities.
C6_AttachmentRouting ==
    \A c \in EntityCollections : \A i \in 1..Len(db[c]) :
        /\ db[c][i].entity_type = "attachments" => c = CollectionOfParentKind(db[c][i].parent_type)
        /\ c \in AttachmentCollections => db[c][i].entity_type = "attachments"

\* A test attachment and a design-step attachment of the same test, each stored
\* in the collection of its kind.
C6_Witness ==
    /\ \E i \in 1..Len(db["testplan_test_attachments"]) :
           db["testplan_test_attachments"][i].parent_type = "test"
    /\ \E i \in 1..Len(db["testplan_test_design_step_attachments"]) :
           db["testplan_test_design_step_attachments"][i].parent_type = "design-step"

FolderLevelCollections ==
    {"testplan_folders", "testplan_tests", "testplan_folder_attachments",
     "attachment_cache"}

\* C7: expanding a folder writes only the folder's immediate children: every
\* document it adds or changes is a subfolder, a test or a folder attachment whose
\* parent is that folder; the collections of design steps, test attachments and
\* the rest stay as they were; the answer holds the counts of the three kinds and
\* nothing else.
C7_FolderOneLevel ==
    [][(Handled /\ request'.endpoint = "expand_testplan_folder") =>
          /\ \A c \in Collections \ FolderLevelCollections : db'[c] = db[c]
          /\ \A c \in FolderLevelCollections :
                 \A i \in 1..Len(db'[c]) :
                     (i > Len(db[c]) \/ db'[c][i] # db[c][i]) =>
                         /\ db'[c][i].parent_id = request'.id
                         /\ db'[c][i].user = request'.username
                         /\ c = "attachment_cache" => db'[c][i].parent_type = "test-folder"
          /\ response'.success =>
                 /\ DOMAIN response' =
                        {"success", "folder_id", "subfolders", "tests", "attachments"}
                 /\ response'.folder_id = request'.id
                 /\ response'.subfolders =
                        Cardinality({e \in alm : e.kind = "test-folders"
                                                 /\ e.parent_id = request'.id})
                 /\ response'.tests =
                        Cardinality({e \in alm : e.kind = "tests"
                                                 /\ e.parent_id = request'.id})
                 /\ response'.attachments =
                        Cardinality({e \in alm : /\ e.kind = "attachments"
                                                 /\ e.parent_id = request'.id
                                                 /\ e.parent_type = "test-folder"})]_vars

\* Folder F1 expanded: two subfolders and one test stored and counted, no
\* attachment, and nothing of the test T1 populated.
C7_Witness ==
    /\ clock = 1
    /\ request = [endpoint |-> "expand_testplan_folder", username |-> "u1", id |-> 1]
    /\ response = [success |-> TRUE, folder_id |-> 1,
                   subfolders |-> 2, tests |-> 1, attachments |-> 0]
    /\ Len(db["testplan_folders"]) = 2
    /\ Len(db["testplan_tests"]) = 1
    /\ db["testplan_test_design_steps"] = <<>>
    /\ db["testplan_test_attachments"] = <<>>

\* C8 as stated: expanding a test stores its design steps and its test attachments
\* only; no design-step attachment is fetched or stored by it.
C8_Original_NoStepAttachments ==
    [][(Handled /\ request'.endpoint = "expand_testplan_test") =>
          /\ db'["testplan_test_design_step_attachments"] =
                 db["testplan_test_design_step_attachments"]
          /\ \A i \in 1..Len(db'["attachment_cache"]) :
                 (i > Len(db["attachment_cache"])
                  \/ db'["attachment_cache"][i] # db["attachment_cache"][i])
                 => db'["attachment_cache"][i].parent_type = "test"]_vars

----------------------------------------------------------------------------
(* Claims on the recursive extraction *)

Parent(id) == (CHOOSE e \in alm : e.kind = "test-folders" /\ e.id = id).parent_id

\* Depth of a folder of the upstream tree below the root of the extraction.
RECURSIVE DepthOf(_)
DepthOf(id) == IF id = RootFolder THEN 0 ELSE 1 + DepthOf(Parent(id))

FatalError ==
    /\ stack # <<>>
    /\ stack' = <<>>
    /\ ~(Len(stack) = 1 /\ Top.pc \in {"enter", "each_subfolder"})

ReachableFolders ==
    {e.id : e \in {f \in alm : f.kind = "test-folders" /\ DepthOf(f.id) <= MaxDepth}}

ParentKindOf(endpoint) ==
    CASE endpoint = "expand_testplan_folder" -> "test-folder"
      [] endpoint = "expand_testplan_test" -> "test"
      [] endpoint = "expand_design_step" -> "design-step"
      [] endpoint = "expand_testlab_testset" -> "test-set"
      [] endpoint = "expand_defect" -> "defect"
      [] OTHER -> "none"

\* C13 as stated: a download that fails for one attachment does not abort the
\* expansion around it: the request still succeeds and every attachment of the
\* expanded node, those after the failing one too, has its metadata stored.
C13_Original_DownloadNotFatal ==
    [][(/\ Handled
        /\ "error" \in DOMAIN response'
        /\ response'.error = "download") =>
          /\ response'.success
          /\ \A e \in alm :
                 (/\ e.kind = "attachments"
                  /\ e.parent_id = request'.id
                  /\ e.parent_type = ParentKindOf(request'.endpoint)) =>
                     \E i \in 1..Len(db'[CollectionOfParentKind(e.parent_type)]) :
                         /\ db'[CollectionOfParentKind(e.parent_type)][i].id = e.id
                         /\ db'[CollectionOfParentKind(e.parent_type)][i].user =
                                request'.username]_vars

\* The folders whose fetch at one of the given positions is still to be made by
\* the innermost call.
Pending(pcs) == IF stack # <<>> /\ Top.pc \in pcs THEN {Top.folder_id} ELSE {}

\* How many records of a kind the upstream holds under the given folders.
ChildCount(kind, folders) ==
    Cardinality({e \in alm : e.kind = kind /\ e.parent_id \in folders})

ExpandedFolders == {x[1] : x \in expanded}

FolderStored(username, id) ==
    \E i \in 1..Len(db["testplan_folders"]) :
        /\ db["testplan_folders"][i].id = id
        /\ db["testplan_folders"][i].user = username

\* The record of a test is in storage for the user.
TestStored(username, id) ==
    \E i \in 1..Len(db["testplan_tests"]) :
        /\ db["testplan_tests"][i].id = id
        /\ db["testplan_tests"][i].user = username

\* C15 as stated: during a walk no child record is in storage without the record
\* of its parent: a subfolder or a test only with its folder, a folder attachment
\* only with its folder, a test attachment only with its test.
C15_Original_NoOrphan ==
    /\ \A c \in {"testplan_folders", "testplan_tests", "testplan_folder_attachments"} :
           \A i \in 1..Len(db[c]) : FolderStored(db[c][i].user, db[c][i].parent_id)
    /\ \A i \in 1..Len(db["testplan_test_attachments"]) :
           TestStored(db["testplan_test_attachments"][i].user,
                      db["testplan_test_attachments"][i].parent_id)

Unauthorized(log) == {i \in 1..Len(log) : log[i] = "unauthorized"}

\* What C16 asks of the log of one call, in progress (end "try") or ended.
ReauthOnceIn(log, end, logins) ==
    /\ Cardinality(Unauthorized(log)) <= 2
    /\ logins = IF Unauthorized(log) = {} THEN 0 ELSE 1
    /\ Cardinality(Unauthorized(log)) = 2 =>
          /\ log[Len(log)] = "unauthorized"
          /\ end = "failed"
    /\ (Cardinality(Unauthorized(log)) = 1 /\ log[Len(log)] = "unauthorized") =>
          end = "try"

\* C16: a call answered 401 re-authenticates once and sends the request once
\* more; a second 401 on the same call fails the call, with no further login and
\* no further request.
C16_ReauthOnce ==
    /\ reauths <= 1
    /\ cpc = "try" => ReauthOnceIn(callLog, "try", reauths)
    /\ cpc \in {"done", "failed"} => ReauthOnceIn(callLog, cpc, reauths)
    /\ \A k \in 1..Len(callHistory) :
           /\ Cardinality(Unauthorized(callHistory[k].log)) <= 2
           /\ Cardinality(Unauthorized(callHistory[k].log)) = 2 =>
                  /\ callHistory[k].end = "failed"
                  /\ callHistory[k].log[Len(callHistory[k].log)] = "unauthorized"

\* A call answered 401 twice: one login, two requests, the call failed.
C16_Witness ==
    /\ cpc = "failed"
    /\ callLog = <<"unauthorized", "unauthorized">>
    /\ reauths = 1

\* C17: a call is retried on transient errors a bounded number of times: no call
\* sees more than 3 of its requests end in a transient error, the third one
\* escalates the failure to the caller, and no call sends more than 4 requests.
C17_BoundedRetry ==
    /\ Transients(callLog) <= 3
    /\ Len(callLog) <= 4
    /\ (callLog # <<>> /\ callLog[Len(callLog)] = "transient") =>
          (cpc = "failed" <=> Transients(callLog) = 3)
    /\ \A k \in 1..Len(callHistory) :
           /\ Transients(callHistory[k].log) <= 3
           /\ Len(callHistory[k].log) <= 4
           /\ Transients(callHistory[k].log) = 3 => callHistory[k].end = "failed"

\* A call whose three requests all timed out, escalated to the caller.
C17_Witness ==
    /\ cpc = "failed"
    /\ callLog = <<"transient", "transient", "transient">>

----------------------------------------------------------------------------
(* Claims on walkers at work at the same time *)

\* C18: when several branches update the counters of one job, no increment is
\* lost: whenever no update is half made, the counter of every job is the sum
\* of the increments made for it.
C18_NoLostIncrement ==
    \A j \in DOMAIN counters : counters[j] = applied[j]

\* Two branches of one job have both counted records, one of them between the
\* other's read of the counter and its update.
C18_Witness ==
    /\ DOMAIN procs = Procs
    /\ procs[1].job = procs[2].job
    /\ procs[1].status = "done"
    /\ procs[2].phase = "write"
    /\ procs[2].snapshot < counters[procs[2].job]
    /\ procs[2].idx > 1

\* The whole documents the walkers write to a collection.
WholeDocs(c) ==
    UNION {{procs[p].script[i].doc :
               i \in {k \in 1..Len(procs[p].script) : procs[p].script[k].coll = c}} :
           p \in DOMAIN procs}

\* C19: two extractions of the same user over overlapping subtrees, with no
\* lock: every collection holds at most one record per key, and every record
\* is one whole document of one of the writes, never a mix of two.
C19_ConcurrentUpserts ==
    \A c \in Collections :
        /\ \A i, k \in 1..Len(db[c]) :
               KeyMatch(db[c][i], db[c][k], IndexKey(c)) => i = k
        /\ \A i \in 1..Len(db[c]) : db[c][i] \in WholeDocs(c)

\* Both extractions are done, they wrote the same keys, and a record of the
\* first was replaced by the second's while the first was still at work.
C19_Witness ==
    /\ DOMAIN procs = Procs
    /\ procs[1].job # procs[2].job
    /\ procs[1].status = "done"
    /\ procs[2].status = "done"
    /\ \E i \in 1..Len(db["attachment_cache"]) :
           db["attachment_cache"][i].downloaded_at = 1
    /\ \E c \in Collections : \E i \in 1..Len(db[c]) :
           "name" \in DOMAIN db[c][i] /\ db[c][i].name = "renamed"

----------------------------------------------------------------------------
(* The end-to-end example *)

RecordIds(c) == {db[c][i].id : i \in 1..Len(db[c])}

\* C20 as the spec states it: on the tree F1 (id 1) with subfolders F2 and F3
\* and test T1 (id 100, two design steps, one attachment), the extraction of
\* folder 1, when no call to ALM fails, ends with 3 folders, 1 test, 2 design
\* steps and 1 attachment counted, and with F1, F2 and F3 in the folder
\* collection.  The
\* job document has no counter of design steps: the records stored are counted.
C20_Original_EndToEnd ==
    (alm = BaseAlm /\ job.status = "completed") =>
        /\ job.folders_extracted = 3
        /\ job.tests_extracted = 1
        /\ Len(db["testplan_test_design_steps"]) = 2
        /\ job.attachments_downloaded = 1
        /\ RecordIds("testplan_folders") = {1, 2, 3}

----------------------------------------------------------------------------
(* The order of the walk *)

\* C21 as the spec states it: at each node the walk stores the node's level,
\* then walks its subfolders before it processes its tests.  So when the
\* details of a test of a folder have been fetched, every subfolder of that
\* folder has been walked.
C21_Original_ContainersBeforeLeaves ==
    \A k \in 1..Len(stack) :
        (stack[k].pc = "each_test" /\ stack[k].i > 1) =>
            \A s \in 1..Len(stack[k].subfolders) :
                stack[k].subfolders[s].id \in ExpandedFolders

----------------------------------------------------------------------------
(* The field configuration and the display format *)

\* The configuration of the mandatory fields of an entity type: the display
\* flag of each, in sequence order.
ENTITY_FIELD_CONFIG ==
    << [field |-> "user", display |-> FALSE],
       [field |-> "id", display |-> TRUE],
       [field |-> "name", display |-> TRUE],
       [field |-> "parent_id", display |-> FALSE] >>

\* The "fields" list parse_alm_response_to_entity puts on the record: one
\* item per configured field, with its display flag and its value.
entity_fields(entity) ==
    [i \in 1..Len(ENTITY_FIELD_CONFIG) |->
        [field |-> ENTITY_FIELD_CONFIG[i].field,
         display |-> ENTITY_FIELD_CONFIG[i].display,
         value |-> entity[ENTITY_FIELD_CONFIG[i].field]]]

\* entity_to_display_format: only the fields where display=True.
entity_to_display_format(entity) ==
    LET fields == entity_fields(entity)
        shown == {i \in 1..Len(fields) : fields[i].display}
    IN  [f \in {fields[i].field : i \in shown} |-> entity[f]]

MandatoryFields == {"id", "name", "parent_id", "user"}

\* C22 as the spec states it: every normalized entity record stored has id,
\* name, parent_id and the owner populated, and the four are visible in its
\* display format whatever the configuration of its type says.
C22_Original_MandatoryVisible ==
    \A c \in EntityCollections : \A i \in 1..Len(db[c]) :
        /\ MandatoryFields \subseteq DOMAIN db[c][i]
        /\ db[c][i].name # ""
        /\ MandatoryFields \subseteq DOMAIN entity_to_display_format(db[c][i])

----------------------------------------------------------------------------
(* The attachment cache *)

\* C23 as the spec states it, for its second half: an entry of the attachment
\* cache, once created by the first download, is never changed by a later
\* expansion that meets the same attachment.
C23_Original_CacheEntryNeverChanged ==
    [][\A i \in 1..Len(db["attachment_cache"]) :
           /\ i <= Len(db'["attachment_cache"])
           /\ db'["attachment_cache"][i] = db["attachment_cache"][i]]_vars

----------------------------------------------------------------------------
(* Claims on the login page *)

\* The place of the last call of a kind before place i of the calls, 0 if none.
LastBefore(i, kind) ==
    LET places == {j \in 1..(i - 1) : apiCalls[j].call = kind}
    IN  IF places = {} THEN 0 ELSE CHOOSE j \in places : \A k \in places : k <= j

\* C24: the login protocol runs in the order authenticate, get domains, get
\* projects, login: the domains are requested only right after an
\* authentication that succeeded, the projects only for a domain of the list
\* loaded since that authentication, and the login call is made only with the
\* domain whose projects were loaded last and with a project of that list.
C24_LoginProtocolOrder ==
    \A i \in 1..Len(apiCalls) :
        LET c == apiCalls[i]
            a == LastBefore(i, "authenticate")
            d == LastBefore(i, "get_domains")
            p == LastBefore(i, "get_projects")
        IN  /\ c.call = "get_domains" =>
                  /\ a = i - 1
                  /\ apiCalls[a].answer = <<"ok">>
            /\ c.call = "get_projects" =>
                  /\ 0 < a /\ a < d
                  /\ c.domain \in Elems(apiCalls[d].answer)
            /\ c.call = "login" =>
                  /\ 0 < a /\ a < d /\ d < p
                  /\ c.domain = apiCalls[p].domain
                  /\ c.domain \in Elems(apiCalls[d].answer)
                  /\ c.project \in Elems(apiCalls[p].answer)

\* A regular user went through the four calls and is in.
C24_Witness ==
    /\ Len(apiCalls) >= 4
    /\ apiCalls[Len(apiCalls)].call = "login"
    /\ apiCalls[Len(apiCalls) - 1].call = "get_projects"
    /\ isAuthenticated
    /\ userRole = "user"

\* C30 as stated: on start-up the application treats the user as authenticated,
\* with the stored role, exactly when a successful login (regular user or
\* admin) has happened and no logout has happened since.
C30_Original_SessionRestored ==
    [][StartUp => /\ isAuthenticated' = (sessionRole # "")
                  /\ userRole' = sessionRole]_vars

----------------------------------------------------------------------------
(* Claims on the end of the walk *)

----------------------------------------------------------------------------
(* Claims on the tree view *)

\* C26 as stated: the children of a node are requested from the backend at
\* most once.
C26_Original_ChildrenRequestedOnce ==
    \A id \in DOMAIN requested : requested[id] <= 1

\* C27 as stated: the extracting flag is true for as long as any extract or
\* export request started from the tree is in flight, and false once none is.
C27_Original_FlagWhileInFlight ==
    extracting = (extractsInFlight # <<>>)

\* C28 as stated: every recursive extraction started from the tree ends with a
\* final notification: the success message when the backend reports success,
\* an error message in every other outcome.
C28_Original_FinalNotification ==
    [][/\ ExtractSucceeded => snackbar' = Notice("success", "Successfully extracted")
       /\ (ExtractRefused \/ ExtractFailed) =>
              (snackbar'.open /\ snackbar'.severity = "error")]_vars

----------------------------------------------------------------------------
(* Claims on the log viewer *)

\* C29 as stated: every stream the log viewer opens is closed before another
\* one is opened and no later than the viewer's unmount: two streams are never
\* open at once and none is open once the viewer has left the page.
C29_Original_OneStreamNoneLeft ==
    /\ Cardinality(openStreams) <= 1
    /\ ~viewerMounted => openStreams = {}

====
